---- MODULE Spec2Model ----
(***************************************************************************)
(* Material Planning Schedule (MPS) backend: the relational store          *)
(* (schema.sql), the REST handlers over it (server.js) and the weekly      *)
(* balance projection that is fed by the range endpoints.                  *)
(*                                                                         *)
(* Quantities are DECIMAL(18,3) columns; they are modelled as integers     *)
(* (a count of thousandths), on which +, - and * are exact as they are on  *)
(* the decimals within their precision.                                    *)
(***************************************************************************)
EXTENDS Integers, Sequences, FiniteSets, TLC

(***************************************************************************)
(* Bounds of the model                                                     *)
(***************************************************************************)
\* number of consecutive week keys the inputs are drawn from
MaxWeeks == 3
\* quantities of the inputs are drawn from 1..MaxQty
MaxQty == 1
\* consume-per-unit rates of the inputs are drawn from 1..MaxRate
MaxRate == 2
\* largest number of production orders / purchase orders in a drawn store
MaxOrders == 2
\* largest id the IDENTITY counters of Products and Materials hand out
MaxItems == 1

(***************************************************************************)
(* Program constants                                                       *)
(***************************************************************************)
\* CHECK (StartWeek >= 1 AND StartWeek <= 53), CHECK (PlanWeek ... <= 53)
WeeksPerYear == 53
\* year of the seed data
BaseYear == 2025

\* JavaScript null / SQL NULL in a place that holds a number; the inputs are
\* never negative
NULL == -1
\* JavaScript undefined in a place that holds a number (a body field or a
\* sheet column that is absent)
UNDEFINED == -2
\* null in a place that holds a row
NullRow == [null |-> TRUE]

(***************************************************************************)
(* Strings whose letter case matters are sequences of characters, so that  *)
(* UPPER() and toUpperCase() are computed, not assumed.                    *)
(***************************************************************************)
UpperChar(c) ==
  CASE c = "a" -> "A" [] c = "b" -> "B" [] c = "c" -> "C" [] c = "d" -> "D"
    [] c = "e" -> "E" [] c = "f" -> "F" [] c = "g" -> "G" [] c = "h" -> "H"
    [] c = "i" -> "I" [] c = "j" -> "J" [] c = "k" -> "K" [] c = "l" -> "L"
    [] c = "m" -> "M" [] c = "n" -> "N" [] c = "o" -> "O" [] c = "p" -> "P"
    [] c = "q" -> "Q" [] c = "r" -> "R" [] c = "s" -> "S" [] c = "t" -> "T"
    [] c = "u" -> "U" [] c = "v" -> "V" [] c = "w" -> "W" [] c = "x" -> "X"
    [] c = "y" -> "Y" [] c = "z" -> "Z"
    [] OTHER -> c

\* T-SQL UPPER(s) / JavaScript s.toUpperCase() on ASCII text
Upper(s) == [i \in DOMAIN s |-> UpperChar(s[i])]

ACTIVE == <<"A", "C", "T", "I", "V", "E">>
COMPLETE == <<"C", "O", "M", "P", "L", "E", "T", "E">>
INITIAL == <<"I", "N", "I", "T", "I", "A", "L">>
CONFIRM == <<"C", "O", "N", "F", "I", "R", "M">>
RECEIVED == <<"R", "E", "C", "E", "I", "V", "E", "D">>
CANCELLED == <<"C", "A", "N", "C", "E", "L", "L", "E", "D">>

(***************************************************************************)
(* Week keys                                                               *)
(***************************************************************************)
WK(y, w) == [year |-> y, week |-> w]

\* mutant: the week numbers compared without the years
WeekLeq_WeekOnly(a, b) == a.week <= b.week

\* a <= b and a < b in the year-then-week order of the range predicates
WeekLeq(a, b) == a.year < b.year \/ (a.year = b.year /\ a.week <= b.week)
WeekLess(a, b) == a.year < b.year \/ (a.year = b.year /\ a.week < b.week)

\* the week after w; a week is an ordinal tag within its year
NextWeek(w) ==
  IF w.week < WeeksPerYear THEN WK(w.year, w.week + 1) ELSE WK(w.year + 1, 1)

RECURSIVE WeekAfter(_, _)
WeekAfter(w, n) == IF n = 0 THEN w ELSE WeekAfter(NextWeek(w), n - 1)

\* the input weeks: MaxWeeks consecutive weeks across the year boundary
FirstWeek == WK(BaseYear, WeeksPerYear - 1)
InputWeeks == {WeekAfter(FirstWeek, n) : n \in 0..(MaxWeeks - 1)}

RECURSIVE enumerateWeeks(_, _)
enumerateWeeks(from, to) ==
  IF WeekLeq(from, to) THEN <<from>> \o enumerateWeeks(NextWeek(from), to)
  ELSE <<>>

Qtys == 1..MaxQty

RECURSIVE SumOver(_, _)
\* sum of f[x] over the finite set S
SumOver(S, f) ==
  IF S = {} THEN 0
  ELSE LET x == CHOOSE y \in S : TRUE IN f[x] + SumOver(S \ {x}, f)

(***************************************************************************)
(* State: the tables of schema.sql, and the last response sent             *)
(***************************************************************************)
VARIABLES
  products,           \* Products rows
  materials,          \* Materials rows
  nextItemId,         \* the IDENTITY counters of Products and Materials
  openingBalances,    \* OpeningBalances rows
  bomLines,           \* BomLines rows
  salesPlans,         \* SalesPlans rows
  productionOrders,   \* ProductionOrders rows
  purchaseOrders,     \* PurchaseOrders rows
  purchaseOrderLines, \* PurchaseOrderLines rows
  resp,               \* the response to the last request
  lastUpsert,         \* per item key, the arguments of the last opening
                      \* balance upsert that succeeded since the key's row
                      \* was last deleted
  inFlight,           \* per request being served concurrently with others,
                      \* its position in its handler and what it has read
  poolPromise,        \* db.js: the cached promise, as the number of the
                      \* connection attempt it belongs to; 0 is undefined
  connects,           \* the number of sql.connect calls made so far
  attempts,           \* per connection attempt, how far it has settled
  callers             \* per caller of getPool(), what it awaits or received

\* the state of db.js
db == <<poolPromise, connects, attempts, callers>>

vars == <<products, materials, nextItemId, openingBalances, bomLines,
          salesPlans, productionOrders, purchaseOrders, purchaseOrderLines,
          resp, lastUpsert, inFlight, db>>

tables == <<products, materials, nextItemId, openingBalances, bomLines,
            salesPlans, productionOrders, purchaseOrders, purchaseOrderLines>>

NoResp == [kind |-> "none"]

\* largest number of callers of getPool() and of sql.connect calls
MaxCallers == 3
MaxConnects == 2

Callers == 1..MaxCallers

\* db.js as loaded: let poolPromise; no connection attempted, nobody waiting
NoPool ==
  /\ poolPromise = 0
  /\ connects = 0
  /\ attempts = <<>>
  /\ callers = [c \in Callers |-> [state |-> "idle", on |-> 0]]

(***************************************************************************)
(* Request parameters                                                      *)
(***************************************************************************)
\* parseIntSafe yields null for a missing parameter; !v is true of null and 0
Falsy(v) == v = NULL \/ v = UNDEFINED \/ v = 0

\* mutant: only the from parameters are required
RangeMissing_FromOnly(from, to) == Falsy(from.year) \/ Falsy(from.week)

\* !fromYear || !fromWeek || !toYear || !toWeek
RangeMissing(from, to) == Falsy(from.year) \/ Falsy(from.week) \/ Falsy(to.year) \/ Falsy(to.week)

\* status 400 and {error} of a range endpoint; the request is recorded for
\* the properties, and queried tells that no query was sent to the store
RangeRejected(kind, id, from, to) ==
  [kind |-> kind, status |-> 400, id |-> id, from |-> from, to |-> to,
   queried |-> FALSE]

(***************************************************************************)
(* The range endpoints (read-only queries)                                 *)
(***************************************************************************)
\* mutant: the week numbers compared without the years
InRange_WeekOnly(y, w, fromYear, fromWeek, toYear, toWeek) ==
  w >= fromWeek /\ w <= toWeek

\* (Year > @fromYear OR (Year = @fromYear AND Week >= @fromWeek))
\*   AND (Year < @toYear OR (Year = @toYear AND Week <= @toWeek))
InRange(y, w, fromYear, fromWeek, toYear, toWeek) ==
  /\ (y > fromYear \/ (y = fromYear /\ w >= fromWeek))
  /\ (y < toYear \/ (y = toYear /\ w <= toWeek))

\* mutant: no status filter in the WHERE clause
ProductionStatusCounts_NoFilter(status) == TRUE

\* mutant: the status compared without UPPER, under a case-sensitive collation
ProductionStatusCounts_CaseSensitive(status) == status \in {ACTIVE, COMPLETE}

\* WHERE UPPER(Status) IN ('ACTIVE','COMPLETE')
ProductionStatusCounts(status) == Upper(status) \in {ACTIVE, COMPLETE}

\* mutant: po.Status = 'CONFIRM' without UPPER, under a case-sensitive
\* collation
PurchaseStatusCounts_CaseSensitive(status) == status = CONFIRM

\* WHERE UPPER(po.Status) = 'CONFIRM'
PurchaseStatusCounts(status) == Upper(status) = CONFIRM

\* the recordset of GET /api/production: SUM(Quantity) GROUP BY product, week
ProductionRows(productId, fromYear, fromWeek, toYear, toWeek) ==
  LET hit == {o \in productionOrders :
                /\ ProductionStatusCounts(o.Status)
                /\ InRange(o.PlanYear, o.PlanWeek,
                           fromYear, fromWeek, toYear, toWeek)
                /\ (productId = NULL \/ o.ProductId = productId)}
      qtyOf == [o \in hit |-> o.Quantity]
  IN {[productId |-> o.ProductId, year |-> o.PlanYear, week |-> o.PlanWeek,
       qty |-> SumOver({h \in hit : /\ h.ProductId = o.ProductId
                                    /\ h.PlanYear = o.PlanYear
                                    /\ h.PlanWeek = o.PlanWeek}, qtyOf)]
      : o \in hit}

\* the recordset of GET /api/purchase: lines JOIN orders, SUM(Quantity)
PurchaseRows(materialId, fromYear, fromWeek, toYear, toWeek) ==
  LET hit == {l \in purchaseOrderLines :
                /\ \E po \in purchaseOrders :
                     /\ po.PurchaseOrderId = l.PurchaseOrderId
                     /\ PurchaseStatusCounts(po.Status)
                /\ InRange(l.EtaYear, l.EtaWeek,
                           fromYear, fromWeek, toYear, toWeek)
                /\ (materialId = NULL \/ l.MaterialId = materialId)}
      qtyOf == [l \in hit |-> l.Quantity]
  IN {[materialId |-> l.MaterialId, year |-> l.EtaYear, week |-> l.EtaWeek,
       qty |-> SumOver({h \in hit : /\ h.MaterialId = l.MaterialId
                                    /\ h.EtaYear = l.EtaYear
                                    /\ h.EtaWeek = l.EtaWeek}, qtyOf)]
      : l \in hit}

\* the recordset of GET /api/sales-plan
SalesPlanRows(productId, fromYear, fromWeek, toYear, toWeek) ==
  {[year |-> r.PlanYear, week |-> r.PlanWeek, qty |-> r.ShipQty] :
     r \in {x \in salesPlans :
              /\ x.ProductId = productId
              /\ InRange(x.PlanYear, x.PlanWeek,
                         fromYear, fromWeek, toYear, toWeek)}}

\* mutant: the BOM lines of every product, without WHERE b.ProductId
MaterialsRows_AnyProduct(productId) ==
  {[id |-> b.MaterialId, consume |-> b.ConsumePerUnit] :
     b \in {x \in bomLines : \E m \in materials : m.id = x.MaterialId}}

\* the recordset of GET /api/materials: BomLines JOIN Materials
MaterialsRows(productId) ==
  {[id |-> b.MaterialId, consume |-> b.ConsumePerUnit] :
     b \in {x \in bomLines :
              /\ x.ProductId = productId
              /\ \E m \in materials : m.id = x.MaterialId}}

\* mutant: the type parameter compared with the table's letter
OpeningBalanceOf_TypeLetter(type, itemId) ==
  LET itemType == IF type = "P" THEN "P" ELSE "M"
      hit == {r \in openingBalances :
                r.ItemType = itemType /\ r.ItemId = itemId}
  IN IF hit = {} THEN NullRow
     ELSE LET r == CHOOSE x \in hit : TRUE
          IN [year |-> r.StartYear, week |-> r.StartWeek,
              balance |-> r.BalanceQty]

\* mutant: the branches of the type test exchanged
OpeningBalanceOf_SwappedType(type, itemId) ==
  LET itemType == IF type = "product" THEN "M" ELSE "P"
      hit == {r \in openingBalances :
                r.ItemType = itemType /\ r.ItemId = itemId}
  IN IF hit = {} THEN NullRow
     ELSE LET r == CHOOSE x \in hit : TRUE
          IN [year |-> r.StartYear, week |-> r.StartWeek,
              balance |-> r.BalanceQty]

\* mutant: WHERE ItemId = @itemId, without the item type
OpeningBalanceOf_AnyType(type, itemId) ==
  LET hit == {r \in openingBalances : r.ItemId = itemId}
  IN IF hit = {} THEN NullRow
     ELSE LET r == CHOOSE x \in hit : TRUE
          IN [year |-> r.StartYear, week |-> r.StartWeek,
              balance |-> r.BalanceQty]

\* GET /api/opening-balance/:type/:id answers recordset[0] || null
OpeningBalanceOf(type, itemId) ==
  LET itemType == IF type = "product" THEN "P" ELSE "M"
      hit == {r \in openingBalances :
                r.ItemType = itemType /\ r.ItemId = itemId}
  IN IF hit = {} THEN NullRow
     ELSE LET r == CHOOSE x \in hit : TRUE
          IN [year |-> r.StartYear, week |-> r.StartWeek,
              balance |-> r.BalanceQty]

(***************************************************************************)
(* Balance projection.  The projector runs in the client of the range      *)
(* endpoints: for a week range it fetches the opening balance and the      *)
(* movement rows of that range and walks the weeks.                        *)
(***************************************************************************)
\* quantity of the row of a recordset at week w, 0 when there is none
QtyAt(rows, w) ==
  LET hit == {r \in rows : r.year = w.year /\ r.week = w.week}
  IN IF hit = {} THEN 0 ELSE (CHOOSE r \in hit : TRUE).qty

RECURSIVE Walk_SkipsEmptyWeeks(_, _, _, _, _, _, _)
\* a pass that returns an entry only for a week that has a row
Walk_SkipsEmptyWeeks(w, from, to, prev, ob, outflow, inflow) ==
  IF ~WeekLeq(w, to) THEN <<>>
  ELSE LET anchor == WK(ob.year, ob.week)
           b == IF WeekLess(w, anchor) THEN 0
                ELSE IF w = anchor THEN ob.balance
                ELSE prev - QtyAt(outflow, w) + QtyAt(inflow, w)
           hasRow == \E r \in outflow \cup inflow :
                       r.year = w.year /\ r.week = w.week
       IN (IF WeekLeq(from, w) /\ (hasRow \/ w = anchor)
           THEN <<[year |-> w.year, week |-> w.week, balance |-> b]>>
           ELSE <<>>)
          \o Walk_SkipsEmptyWeeks(NextWeek(w), from, to, b, ob, outflow, inflow)

RECURSIVE Walk(_, _, _, _, _, _, _)
\* single pass from week w to week to; entries of weeks before from are
\* computed but not returned
Walk(w, from, to, prev, ob, outflow, inflow) ==
  IF ~WeekLeq(w, to) THEN <<>>
  ELSE LET anchor == WK(ob.year, ob.week)
           b == IF WeekLess(w, anchor) THEN 0
                ELSE IF w = anchor THEN ob.balance
                ELSE prev - QtyAt(outflow, w) + QtyAt(inflow, w)
       IN (IF WeekLeq(from, w)
           THEN <<[year |-> w.year, week |-> w.week, balance |-> b]>>
           ELSE <<>>)
          \o Walk(NextWeek(w), from, to, b, ob, outflow, inflow)

\* the balance series of one item over [from, to]
Project(ob, outflow, inflow, from, to) ==
  IF ob = NullRow
  THEN [i \in DOMAIN enumerateWeeks(from, to) |->
          [year |-> enumerateWeeks(from, to)[i].year,
           week |-> enumerateWeeks(from, to)[i].week, balance |-> 0]]
  ELSE LET anchor == WK(ob.year, ob.week)
           start == IF WeekLess(anchor, from) THEN anchor ELSE from
       IN Walk(start, from, to, 0, ob, outflow, inflow)

\* product: outflow = ship quantity, inflow = production quantity
ProductBalance(productId, from, to) ==
  Project(OpeningBalanceOf("product", productId),
          SalesPlanRows(productId, from.year, from.week, to.year, to.week),
          ProductionRows(productId, from.year, from.week, to.year, to.week),
          from, to)

\* consumption of a material: production of the product * consume per unit
ConsumptionRows(productId, materialId, from, to) ==
  {[year |-> p.year, week |-> p.week, qty |-> p.qty * b.consume] :
     <<p, b>> \in
       ProductionRows(productId, from.year, from.week, to.year, to.week)
       \X {x \in MaterialsRows(productId) : x.id = materialId}}

\* material: outflow = BOM-derived consumption, inflow = purchase quantity
MaterialBalance(productId, materialId, from, to) ==
  Project(OpeningBalanceOf("material", materialId),
          ConsumptionRows(productId, materialId, from, to),
          PurchaseRows(materialId, from.year, from.week, to.year, to.week),
          from, to)

ProjectProduct(productId, from, to) ==
  /\ resp = NoResp
  /\ resp' = [kind |-> "productBalance", productId |-> productId,
              from |-> from, to |-> to,
              series |-> ProductBalance(productId, from, to)]
  /\ UNCHANGED <<tables, lastUpsert, inFlight, db>>

ProjectMaterial(productId, materialId, from, to) ==
  /\ resp = NoResp
  /\ resp' = [kind |-> "materialBalance", productId |-> productId,
              materialId |-> materialId, from |-> from, to |-> to,
              series |-> MaterialBalance(productId, materialId, from, to)]
  /\ UNCHANGED <<tables, lastUpsert, inFlight, db>>

(***************************************************************************)
(* Projection over drawn stores: the tables are drawn from bounded sets    *)
(* of rows, the requests are applied to them.                              *)
(***************************************************************************)
\* the sets {row(1, f[1]), ..., row(n, f[n])} for n <= MaxOrders; the rows
\* are drawn in ascending order of content, one draw per multiset
RowSets(Content, Mk(_, _), Idx(_)) ==
  UNION {{{Mk(i, f[i]) : i \in 1..n} :
            f \in {g \in [1..n -> Content] :
                     \A i \in 1..n : i < n => Idx(g[i]) <= Idx(g[i + 1])}} :
           n \in 0..MaxOrders}

LowerComplete == <<"c", "o", "m", "p", "l", "e", "t", "e">>
MixedConfirm == <<"C", "o", "n", "f", "i", "r", "m">>

\* a drawn row: quantity, week (its index in the input weeks), status (its
\* index in a sequence of statuses)
OrderContent(n) ==
  [q : Qtys, wi : 0..(MaxWeeks - 1), si : 1..n]

ContentIdx(c) == c.q + (MaxQty + 1) * (c.wi + MaxWeeks * c.si)

ProjProductionStatuses == <<LowerComplete, INITIAL, ACTIVE>>
ProjPurchaseStatuses == <<MixedConfirm, RECEIVED>>

MkProductionOrder(i, c) ==
  [ProductionOrderId |-> i, ProductId |-> 1, Quantity |-> c.q,
   PlanYear |-> WeekAfter(FirstWeek, c.wi).year,
   PlanWeek |-> WeekAfter(FirstWeek, c.wi).week,
   Status |-> ProjProductionStatuses[c.si]]

MkPurchaseOrder(i, c) ==
  [PurchaseOrderId |-> i, Status |-> ProjPurchaseStatuses[c.si]]

MkPurchaseOrderLine(i, c) ==
  [PurchaseOrderLineId |-> i, PurchaseOrderId |-> i, MaterialId |-> 1,
   Quantity |-> c.q, EtaYear |-> WeekAfter(FirstWeek, c.wi).year,
   EtaWeek |-> WeekAfter(FirstWeek, c.wi).week]

MkOpeningBalance(t, id, w, q) ==
  [ItemType |-> t, ItemId |-> id,
   StartYear |-> w.year, StartWeek |-> w.week, BalanceQty |-> q]

\* no row, or one row, for the item (t, 1)
OpeningChoices(t, qs) ==
  {{}} \cup {{MkOpeningBalance(t, 1, w, q)} : w \in InputWeeks, q \in qs}

\* no row, or one row, of product 1
SalesChoices ==
  {{}} \cup {{[ProductId |-> 1, PlanYear |-> w.year, PlanWeek |-> w.week,
               ShipQty |-> q]} : w \in InputWeeks, q \in Qtys}

InitProjProduct ==
  /\ products = {[id |-> 1, code |-> "589"]}
  /\ materials = {}
  /\ nextItemId = [P |-> 2, M |-> 1]
  /\ openingBalances \in
       {ob \cup {MkOpeningBalance("M", 1, FirstWeek, MaxQty + 1)} :
          ob \in OpeningChoices("P", Qtys)}
  /\ bomLines = {}
  /\ salesPlans \in SalesChoices
  /\ productionOrders \in
       RowSets(OrderContent(2), MkProductionOrder, ContentIdx)
  /\ purchaseOrders = {}
  /\ purchaseOrderLines = {}
  /\ resp = NoResp
  /\ lastUpsert = {}
  /\ inFlight = <<>>
  /\ NoPool

InitProjMaterial ==
  /\ products = {[id |-> 1, code |-> "589"]}
  /\ materials = {[id |-> 1, code |-> "NVL3"]}
  /\ nextItemId = [P |-> 2, M |-> 2]
  /\ openingBalances \in
       {ob \cup {MkOpeningBalance("P", 1, FirstWeek, MaxQty)} :
          ob \in OpeningChoices("M", {MaxQty + 1})}
  /\ bomLines \in
       {{}} \cup {{[ProductId |-> 1, MaterialId |-> 1,
                    ConsumePerUnit |-> MaxRate]}}
  /\ salesPlans = {}
  /\ productionOrders \in
       {{}} \cup {{MkProductionOrder(1, c)} : c \in [q : {MaxQty}, wi : 0..(MaxWeeks - 1), si : {3}]}
  /\ \E po \in RowSets(OrderContent(2), LAMBDA i, c : <<i, c>>, ContentIdx) :
       /\ purchaseOrders = {MkPurchaseOrder(x[1], x[2]) : x \in po}
       /\ purchaseOrderLines = {MkPurchaseOrderLine(x[1], x[2]) : x \in po}
  /\ resp = NoResp
  /\ lastUpsert = {}
  /\ inFlight = <<>>
  /\ NoPool

InitProj == InitProjProduct \/ InitProjMaterial

NextProj ==
  \E from \in InputWeeks :
  \E to \in {w \in InputWeeks : WeekLeq(from, w)} :
    \/ \E p \in products : ProjectProduct(p.id, from, to)
    \/ \E p \in products, m \in materials :
         ProjectMaterial(p.id, m.id, from, to)

SpecProj == InitProj /\ [][NextProj]_vars

(***************************************************************************)
(* Properties of the projection.  They are stated on the tables            *)
(* themselves, not on the recordsets of the endpoints.                     *)
(***************************************************************************)
IsProjection == resp.kind \in {"productBalance", "materialBalance"}

RespItemType == IF resp.kind = "productBalance" THEN "P" ELSE "M"
RespItemId ==
  IF resp.kind = "productBalance" THEN resp.productId ELSE resp.materialId

\* the opening balance rows of the projected item
RespOpening ==
  {r \in openingBalances :
     r.ItemType = RespItemType /\ r.ItemId = RespItemId}

AnchorOf(r) == WK(r.StartYear, r.StartWeek)
WeekOf(e) == WK(e.year, e.week)

\* a and b are the same word when letter case is ignored
SameWord(a, b) ==
  /\ Len(a) = Len(b)
  /\ \A i \in 1..Len(a) :
       \E c \in {a[i], b[i]} : UpperChar(a[i]) = c /\ UpperChar(b[i]) = c

\* the production orders of product p in week w that are ACTIVE or COMPLETE
CountedOrders(p, w) ==
  {o \in productionOrders :
     /\ o.ProductId = p /\ o.PlanYear = w.year /\ o.PlanWeek = w.week
     /\ (SameWord(o.Status, ACTIVE) \/ SameWord(o.Status, COMPLETE))}

\* the purchase order lines of material m in week w of CONFIRM orders
CountedLines(m, w) ==
  {l \in purchaseOrderLines :
     /\ l.MaterialId = m /\ l.EtaYear = w.year /\ l.EtaWeek = w.week
     /\ \E po \in purchaseOrders :
          /\ po.PurchaseOrderId = l.PurchaseOrderId
          /\ SameWord(po.Status, CONFIRM)}

ProducedQty(p, w) ==
  SumOver(CountedOrders(p, w), [o \in productionOrders |-> o.Quantity])

PurchasedQty(m, w) ==
  SumOver(CountedLines(m, w), [l \in purchaseOrderLines |-> l.Quantity])

ShippedQty(p, w) ==
  SumOver({r \in salesPlans : /\ r.ProductId = p /\ r.PlanYear = w.year
                              /\ r.PlanWeek = w.week},
          [r \in salesPlans |-> r.ShipQty])

ConsumedQty(p, m, w) ==
  ProducedQty(p, w)
    * SumOver({b \in bomLines : b.ProductId = p /\ b.MaterialId = m},
              [b \in bomLines |-> b.ConsumePerUnit])

RespOutflow(w) ==
  IF resp.kind = "productBalance" THEN ShippedQty(resp.productId, w)
  ELSE ConsumedQty(resp.productId, resp.materialId, w)

RespInflow(w) ==
  IF resp.kind = "productBalance" THEN ProducedQty(resp.productId, w)
  ELSE PurchasedQty(resp.materialId, w)

\* C1 (recurrence): in a projection of an item with an opening balance, every
\* returned week after the anchor week that follows a returned week has
\* balance = balance of the previous week - outflow + inflow, with ship and
\* ACTIVE/COMPLETE production for a product and BOM consumption and CONFIRM
\* purchases for a material.
C1_Recurrence ==
  IsProjection =>
    \A r \in RespOpening :
      \A i \in 1..(Len(resp.series) - 1) :
        LET w == WeekOf(resp.series[i + 1])
        IN WeekLess(AnchorOf(r), w) =>
             resp.series[i + 1].balance =
               resp.series[i].balance - RespOutflow(w) + RespInflow(w)

\* a material projection in which a week after the anchor has both a
\* consumption and two summed purchase lines
C1_Witness ==
  /\ resp.kind = "materialBalance"
  /\ \E r \in RespOpening :
       \E i \in 1..(Len(resp.series) - 1) :
         LET w == WeekOf(resp.series[i + 1])
         IN /\ WeekLess(AnchorOf(r), w)
            /\ RespOutflow(w) > 0
            /\ Cardinality(CountedLines(resp.materialId, w)) = 2

\* C2 (anchor fixed): the balance returned for the anchor week is the opening
\* quantity, whatever movement rows are dated in the anchor week.
C2_AnchorFixed ==
  IsProjection =>
    \A r \in RespOpening :
      \A i \in 1..Len(resp.series) :
        WeekOf(resp.series[i]) = AnchorOf(r) =>
          resp.series[i].balance = r.BalanceQty

\* a projection that returns the anchor week while movements are dated in it
C2_Witness ==
  /\ IsProjection
  /\ \E r \in RespOpening :
       \E i \in 1..Len(resp.series) :
         /\ WeekOf(resp.series[i]) = AnchorOf(r)
         /\ RespInflow(AnchorOf(r)) > 0
         /\ RespOutflow(AnchorOf(r)) > 0

\* C3 (zero before anchor): every returned week strictly before the anchor
\* week has balance 0, whatever movement rows are dated before the anchor.
C3_ZeroBeforeAnchor ==
  IsProjection =>
    \A r \in RespOpening :
      \A i \in 1..Len(resp.series) :
        WeekLess(WeekOf(resp.series[i]), AnchorOf(r)) =>
          resp.series[i].balance = 0

\* a projection that returns a week before the anchor in which production
\* was counted
C3_Witness ==
  /\ resp.kind = "productBalance"
  /\ \E r \in RespOpening :
       \E i \in 1..Len(resp.series) :
         /\ WeekLess(WeekOf(resp.series[i]), AnchorOf(r))
         /\ RespInflow(WeekOf(resp.series[i])) > 0

\* the entries of a series from week from on
SliceFrom(series, from) ==
  SelectSeq(series, LAMBDA e : WeekLeq(from, WeekOf(e)))

C5_NoOpeningAllZero ==
  (IsProjection /\ RespOpening = {}) =>
    /\ Len(resp.series) = Len(enumerateWeeks(resp.from, resp.to))
    /\ \A i \in 1..Len(resp.series) : resp.series[i].balance = 0

\* a projection of an item without an opening balance while movements are
\* dated in a requested week
C5_Witness ==
  /\ IsProjection
  /\ RespOpening = {}
  /\ \E i \in 1..Len(resp.series) :
       RespInflow(WeekOf(resp.series[i])) > 0

\* position of a week on the week axis, counted from week 1 of BaseYear
WeekIndex(w) == (w.year - BaseYear) * WeeksPerYear + w.week

\* some table holds a row of the projected item dated in week w
RespHasRow(w) ==
  IF resp.kind = "productBalance"
  THEN \/ \E s \in salesPlans :
            s.ProductId = resp.productId /\ WK(s.PlanYear, s.PlanWeek) = w
       \/ \E o \in productionOrders :
            o.ProductId = resp.productId /\ WK(o.PlanYear, o.PlanWeek) = w
  ELSE \/ \E o \in productionOrders :
            /\ o.ProductId = resp.productId
            /\ WK(o.PlanYear, o.PlanWeek) = w
            /\ \E l \in bomLines :
                 l.ProductId = resp.productId /\ l.MaterialId = resp.materialId
       \/ \E l \in purchaseOrderLines :
            l.MaterialId = resp.materialId /\ WK(l.EtaYear, l.EtaWeek) = w

\* C14 (gaps are zero, one entry per week): every projection returns a
\* series; the series has exactly one entry for every week of the requested
\* range, in ascending order from the first to the last requested week,
\* whether or not a row exists for the week; and a returned week after the
\* anchor for which no sales-plan, production, purchase or BOM row exists
\* carries the balance of the week before it.
C14_GapsAreZero ==
  IsProjection =>
    /\ Len(resp.series) = WeekIndex(resp.to) - WeekIndex(resp.from) + 1
    /\ \A i \in 1..Len(resp.series) :
         WeekIndex(WeekOf(resp.series[i])) = WeekIndex(resp.from) + i - 1
    /\ \A i \in 1..(Len(resp.series) - 1) :
         WeekLess(WeekOf(resp.series[i]), WeekOf(resp.series[i + 1]))
    /\ \A r \in RespOpening :
         \A i \in 1..(Len(resp.series) - 1) :
           LET w == WeekOf(resp.series[i + 1])
           IN (WeekLess(AnchorOf(r), w) /\ ~RespHasRow(w)) =>
                resp.series[i + 1].balance = resp.series[i].balance

\* a projection of an item with an opening balance over several weeks, of
\* which one week after the anchor has no row and another has one
C14_Witness ==
  /\ IsProjection
  /\ Len(resp.series) = MaxWeeks
  /\ \E r \in RespOpening :
       /\ r.BalanceQty > 0
       /\ \E i, j \in 1..Len(resp.series) :
            /\ WeekLess(AnchorOf(r), WeekOf(resp.series[i]))
            /\ ~RespHasRow(WeekOf(resp.series[i]))
            /\ RespHasRow(WeekOf(resp.series[j]))

(***************************************************************************)
(* Opening balance registry and item master                                *)
(*                                                                         *)
(* A row of OpeningBalances holds the columns the handlers read and write; *)
(* no statement reads OpeningBalanceId, CreatedAt or UpdatedAt.            *)
(***************************************************************************)
OpeningKey(r, itemType, itemId) == r.ItemType = itemType /\ r.ItemId = itemId

\* StartYear, BalanceQty NOT NULL; CHECK (StartWeek >= 1 AND StartWeek <= 53)
OpeningRowValid(startYear, startWeek, balanceQty) ==
  /\ startYear # NULL
  /\ balanceQty # NULL
  /\ startWeek >= 1 /\ startWeek <= WeeksPerYear

\* mutant: the INSERT branch runs with no uniqueness constraint on the table
UniqueViolation_None(rows, itemType, itemId) == FALSE

\* UNIQUE(ItemType, ItemId): an insert of the key is refused when a row has it
UniqueViolation(rows, itemType, itemId) ==
  \E r \in rows : OpeningKey(r, itemType, itemId)

\* ON target.ItemType = src.ItemType AND target.ItemId = src.ItemId
MergeMatched(rows, itemType, itemId) ==
  \E r \in rows : OpeningKey(r, itemType, itemId)

\* mutant: WHEN MATCHED updates the quantity and leaves the anchor week
MergeApply_KeepsAnchor(rows, matched, itemType, itemId, startYear, startWeek, balanceQty) ==
  IF matched
  THEN IF ~MergeMatched(rows, itemType, itemId)
       THEN [ok |-> TRUE, rows |-> rows]
       ELSE IF ~OpeningRowValid(startYear, startWeek, balanceQty)
       THEN [ok |-> FALSE, rows |-> rows]
       ELSE [ok |-> TRUE,
             rows |-> {IF OpeningKey(r, itemType, itemId)
                       THEN [r EXCEPT !.BalanceQty = balanceQty]
                       ELSE r : r \in rows}]
  ELSE IF \/ ~OpeningRowValid(startYear, startWeek, balanceQty)
          \/ UniqueViolation(rows, itemType, itemId)
       THEN [ok |-> FALSE, rows |-> rows]
       ELSE [ok |-> TRUE,
             rows |-> rows \cup
               {[ItemType |-> itemType, ItemId |-> itemId,
                 StartYear |-> startYear, StartWeek |-> startWeek,
                 BalanceQty |-> balanceQty]}]

\* mutant: WHEN MATCHED adds the quantity to the stored one
MergeApply_Accumulates(rows, matched, itemType, itemId, startYear, startWeek, balanceQty) ==
  IF matched
  THEN IF ~MergeMatched(rows, itemType, itemId)
       THEN [ok |-> TRUE, rows |-> rows]
       ELSE IF ~OpeningRowValid(startYear, startWeek, balanceQty)
       THEN [ok |-> FALSE, rows |-> rows]
       ELSE [ok |-> TRUE,
             rows |-> {IF OpeningKey(r, itemType, itemId)
                       THEN [r EXCEPT !.StartYear = startYear,
                                      !.StartWeek = startWeek,
                                      !.BalanceQty = @ + balanceQty]
                       ELSE r : r \in rows}]
  ELSE IF \/ ~OpeningRowValid(startYear, startWeek, balanceQty)
          \/ UniqueViolation(rows, itemType, itemId)
       THEN [ok |-> FALSE, rows |-> rows]
       ELSE [ok |-> TRUE,
             rows |-> rows \cup
               {[ItemType |-> itemType, ItemId |-> itemId,
                 StartYear |-> startYear, StartWeek |-> startWeek,
                 BalanceQty |-> balanceQty]}]

\* the WHEN MATCHED (UPDATE) or WHEN NOT MATCHED (INSERT) branch of the MERGE,
\* given the outcome of its ON clause; ok is false when the statement fails
MergeApply(rows, matched, itemType, itemId, startYear, startWeek, balanceQty) ==
  IF matched
  THEN IF ~MergeMatched(rows, itemType, itemId)
       THEN [ok |-> TRUE, rows |-> rows]
       ELSE IF ~OpeningRowValid(startYear, startWeek, balanceQty)
       THEN [ok |-> FALSE, rows |-> rows]
       ELSE [ok |-> TRUE,
             rows |-> {IF OpeningKey(r, itemType, itemId)
                       THEN [r EXCEPT !.StartYear = startYear,
                                      !.StartWeek = startWeek,
                                      !.BalanceQty = balanceQty]
                       ELSE r : r \in rows}]
  ELSE IF \/ ~OpeningRowValid(startYear, startWeek, balanceQty)
          \/ UniqueViolation(rows, itemType, itemId)
       THEN [ok |-> FALSE, rows |-> rows]
       ELSE [ok |-> TRUE,
             rows |-> rows \cup
               {[ItemType |-> itemType, ItemId |-> itemId,
                 StartYear |-> startYear, StartWeek |-> startWeek,
                 BalanceQty |-> balanceQty]}]

\* MERGE OpeningBalances ... as one statement
MergeOpeningBalance(rows, itemType, itemId, startYear, startWeek, balanceQty) ==
  MergeApply(rows, MergeMatched(rows, itemType, itemId), itemType, itemId,
             startYear, startWeek, balanceQty)

\* the record of a successful upsert replaces the key's earlier record
RecordUpsert(lu, itemType, itemId, startYear, startWeek, balanceQty) ==
  {u \in lu : ~OpeningKey(u, itemType, itemId)} \cup
     {[ItemType |-> itemType, ItemId |-> itemId, StartYear |-> startYear,
       StartWeek |-> startWeek, BalanceQty |-> balanceQty]}

Reply(kind, status) == [kind |-> kind, status |-> status]

\* the reply of a handler whose MERGE of an opening balance succeeded;
\* matched records, for the properties, whether the MERGE found the key
UpsertReply(kind, status, matched) ==
  [kind |-> kind, status |-> status, matched |-> matched]

\* {ok: true} of PUT /api/opening-balance; for the properties, matched
\* records whether the MERGE found the key in rows, and repeated whether rows
\* already held the row that this request writes
PutOpeningReply(rows, itemType, itemId, a) ==
  [kind |-> "putOpeningBalance", status |-> 200,
   matched |-> MergeMatched(rows, itemType, itemId),
   repeated |-> [ItemType |-> itemType, ItemId |-> itemId,
                 StartYear |-> a.year, StartWeek |-> a.week,
                 BalanceQty |-> a.qty] \in rows]

\* PUT /api/opening-balance
PutOpeningBalance(itemType, itemId, a) ==
  /\ UNCHANGED <<inFlight, db>>
  /\ IF itemType \notin {"P", "M"}
     THEN /\ resp' = Reply("putOpeningBalance", 400)
          /\ UNCHANGED <<tables, lastUpsert>>
     ELSE IF Falsy(itemId) \/ Falsy(a.year) \/ Falsy(a.week) \/ a.qty = UNDEFINED
     THEN /\ resp' = Reply("putOpeningBalance", 400)
          /\ UNCHANGED <<tables, lastUpsert>>
     ELSE LET m == MergeOpeningBalance(openingBalances, itemType, itemId,
                                       a.year, a.week, a.qty)
          IN IF m.ok
             THEN /\ openingBalances' = m.rows
                  /\ lastUpsert' = RecordUpsert(lastUpsert, itemType, itemId,
                                                a.year, a.week, a.qty)
                  /\ resp' = PutOpeningReply(openingBalances, itemType,
                                             itemId, a)
                  /\ UNCHANGED <<products, materials, nextItemId, bomLines,
                                 salesPlans, productionOrders, purchaseOrders,
                                 purchaseOrderLines>>
             ELSE /\ resp' = Reply("putOpeningBalance", 500)
                  /\ UNCHANGED <<tables, lastUpsert>>

ItemsOf(itemType) == IF itemType = "P" THEN products ELSE materials

SetItems(itemType, rows) ==
  IF itemType = "P"
  THEN products' = rows /\ UNCHANGED materials
  ELSE materials' = rows /\ UNCHANGED products

\* if (openingYear && openingWeek && openingBalance !== undefined)
OpeningGiven(a) == ~Falsy(a.year) /\ ~Falsy(a.week) /\ a.qty # UNDEFINED

\* the opening balance step that ends the item handlers and their reply
OpeningStep(kind, okStatus, itemType, itemId, a) ==
  IF OpeningGiven(a)
  THEN LET m == MergeOpeningBalance(openingBalances, itemType, itemId,
                                    a.year, a.week, a.qty)
       IN IF m.ok
          THEN /\ openingBalances' = m.rows
               /\ lastUpsert' = RecordUpsert(lastUpsert, itemType, itemId,
                                             a.year, a.week, a.qty)
               /\ resp' = UpsertReply(kind, okStatus,
                                       MergeMatched(openingBalances, itemType,
                                                    itemId))
          ELSE /\ resp' = Reply(kind, 500)
               /\ UNCHANGED <<openingBalances, lastUpsert>>
  ELSE /\ resp' = Reply(kind, okStatus)
       /\ UNCHANGED <<openingBalances, lastUpsert>>

\* POST /api/items; type is one character, code and name "" when absent
PostItem(type, code, name, a) ==
  /\ UNCHANGED <<inFlight, db>>
  /\ LET itemType == UpperChar(type)
     IN IF itemType \notin {"P", "M"} \/ code = "" \/ name = ""
        THEN /\ resp' = Reply("postItem", 400)
             /\ UNCHANGED <<tables, lastUpsert>>
        ELSE LET newId == nextItemId[itemType]
             IN /\ newId <= MaxItems
                \* a refused INSERT consumes its IDENTITY value too
                /\ nextItemId' = [nextItemId EXCEPT ![itemType] = newId + 1]
                /\ UNCHANGED <<bomLines, salesPlans, productionOrders,
                               purchaseOrders, purchaseOrderLines>>
                /\ IF \E i \in ItemsOf(itemType) : i.code = code
                   THEN /\ resp' = Reply("postItem", 500)
                        /\ UNCHANGED <<products, materials, openingBalances,
                                       lastUpsert>>
                   ELSE /\ SetItems(itemType, ItemsOf(itemType) \cup
                                      {[id |-> newId, code |-> code]})
                        /\ OpeningStep("postItem", 201, itemType, newId, a)

\* PUT /api/items/:type/:id
PutItem(type, itemId, code, a) ==
  /\ UNCHANGED <<inFlight, db>>
  /\ LET itemType == UpperChar(type)
     IN IF itemType \notin {"P", "M"} \/ Falsy(itemId)
        THEN /\ resp' = Reply("putItem", 400)
             /\ UNCHANGED <<tables, lastUpsert>>
        ELSE LET items == ItemsOf(itemType)
                 renamed == {IF i.id = itemId /\ code # ""
                             THEN [i EXCEPT !.code = code] ELSE i : i \in items}
             IN IF \E i, j \in renamed : i.id # j.id /\ i.code = j.code
                THEN /\ resp' = Reply("putItem", 500)
                     /\ UNCHANGED <<tables, lastUpsert>>
                ELSE /\ SetItems(itemType, renamed)
                     /\ UNCHANGED <<nextItemId, bomLines, salesPlans,
                                    productionOrders, purchaseOrders,
                                    purchaseOrderLines>>
                     /\ OpeningStep("putItem", 200, itemType, itemId, a)

\* mutant: the opening balances are deleted by item id alone
DeleteOpening_AnyType(rows, itemType, itemId) == {r \in rows : r.ItemId # itemId}

\* DELETE FROM OpeningBalances WHERE ItemType = @itemType AND ItemId = @itemId
DeleteOpening(rows, itemType, itemId) == {r \in rows : ~OpeningKey(r, itemType, itemId)}

\* {ok: true} of DELETE /api/items; the request and the opening balances and
\* BOM lines it found are recorded for the properties
DeleteReply(itemType, itemId) ==
  [kind |-> "deleteItem", status |-> 200, itemType |-> itemType,
   itemId |-> itemId,
   before |-> [openingBalances |-> openingBalances, bomLines |-> bomLines]]

\* DELETE /api/items/:type/:id, with the ON DELETE CASCADE of the item's row
DeleteItem(type, itemId) ==
  /\ UNCHANGED <<inFlight, db>>
  /\ LET itemType == UpperChar(type)
     IN IF itemType \notin {"P", "M"} \/ Falsy(itemId)
        THEN /\ resp' = Reply("deleteItem", 400)
             /\ UNCHANGED <<tables, lastUpsert>>
        ELSE /\ openingBalances' =
                  DeleteOpening(openingBalances, itemType, itemId)
             /\ lastUpsert' = {u \in lastUpsert : ~OpeningKey(u, itemType, itemId)}
             /\ SetItems(itemType, {i \in ItemsOf(itemType) : i.id # itemId})
             /\ IF itemType = "P"
                THEN /\ bomLines' = {b \in bomLines : b.ProductId # itemId}
                     /\ salesPlans' = {p \in salesPlans : p.ProductId # itemId}
                     /\ productionOrders' =
                          {o \in productionOrders : o.ProductId # itemId}
                     /\ UNCHANGED purchaseOrderLines
                ELSE /\ bomLines' = {b \in bomLines : b.MaterialId # itemId}
                     /\ purchaseOrderLines' =
                          {l \in purchaseOrderLines : l.MaterialId # itemId}
                     /\ UNCHANGED <<salesPlans, productionOrders>>
             /\ resp' = DeleteReply(itemType, itemId)
             /\ UNCHANGED <<nextItemId, purchaseOrders>>

\* DELETE /api/items/:type/:id when the statement that deletes the item's
\* row throws (lock timeout, lost connection): the opening-balance delete
\* was sent on its own before it, outside any transaction, and the catch
\* block replies 500
DeleteItem_ItemDeleteFails(type, itemId) ==
  LET itemType == UpperChar(type)
  IN /\ itemType \in {"P", "M"}
     /\ ~Falsy(itemId)
     /\ openingBalances' = DeleteOpening(openingBalances, itemType, itemId)
     /\ lastUpsert' = {u \in lastUpsert : ~OpeningKey(u, itemType, itemId)}
     /\ resp' = [DeleteReply(itemType, itemId) EXCEPT !.status = 500]
     /\ UNCHANGED <<products, materials, nextItemId, bomLines, salesPlans,
                    productionOrders, purchaseOrders, purchaseOrderLines,
                    inFlight, db>>

\* one row of the import loop over the store st; st.ok turns false when a
\* statement of the row fails
ImportRow(st, row) ==
  LET itemType == UpperChar(row.Type)
  IN IF itemType \notin {"P", "M"} \/ row.Code = "" \/ row.Name = ""
     THEN st
     ELSE LET items == IF itemType = "P" THEN st.products ELSE st.materials
              hit == {i \in items : i.code = row.Code}
              newId == IF hit = {} THEN st.nextItemId[itemType]
                       ELSE (CHOOSE i \in hit : TRUE).id
              items2 == IF hit = {}
                        THEN items \cup {[id |-> newId, code |-> row.Code]}
                        ELSE items
              st2 == [st EXCEPT
                        !.products = IF itemType = "P" THEN items2 ELSE @,
                        !.materials = IF itemType = "M" THEN items2 ELSE @,
                        !.nextItemId = IF hit = {}
                                       THEN [@ EXCEPT ![itemType] = newId + 1]
                                       ELSE @]
              \* row.Balance || row.OpeningBalance
              openingBalance == IF ~Falsy(row.Balance) THEN row.Balance
                                ELSE row.OpeningBalance
          IN IF Falsy(row.StartYear) \/ Falsy(row.StartWeek)
                \/ openingBalance = UNDEFINED
             THEN st2
             ELSE LET m == MergeOpeningBalance(st2.openingBalances, itemType,
                             newId, row.StartYear, row.StartWeek,
                             openingBalance)
                  IN IF m.ok
                     THEN [st2 EXCEPT
                             !.openingBalances = m.rows,
                             !.upserted = TRUE,
                             !.matched =
                               MergeMatched(st2.openingBalances, itemType,
                                            newId),
                             !.lastUpsert =
                               RecordUpsert(@, itemType, newId, row.StartYear,
                                            row.StartWeek, openingBalance)]
                     ELSE [st2 EXCEPT !.ok = FALSE]

RECURSIVE ImportRows(_, _)
ImportRows(st, rows) ==
  IF rows = <<>> \/ ~st.ok THEN st
  ELSE ImportRows(ImportRow(st, Head(rows)), Tail(rows))

MAX_IMPORT_ROWS == 5000

\* a reply of POST /api/items/import; for the properties, rows records the
\* number of rows of the sheet
ImportReply(reply, rows) ==
  IF "matched" \in DOMAIN reply
  THEN [kind |-> reply.kind, status |-> reply.status,
        matched |-> reply.matched, rows |-> Len(rows)]
  ELSE [kind |-> reply.kind, status |-> reply.status, rows |-> Len(rows)]

\* POST /api/items/import with a file; rows is the first sheet as
\* sheet_to_json(sheet, { defval: null }) returns it.  The handler reads the
\* sheet and runs the loop over its rows, whatever their number.
ImportItems(rows) ==
  LET st == ImportRows([products |-> products, materials |-> materials,
                        nextItemId |-> nextItemId,
                        openingBalances |-> openingBalances,
                        lastUpsert |-> lastUpsert, ok |-> TRUE,
                        upserted |-> FALSE, matched |-> FALSE], rows)
  IN /\ \A t \in {"P", "M"} : st.nextItemId[t] <= MaxItems + 1
     /\ products' = st.products
     /\ materials' = st.materials
     /\ nextItemId' = st.nextItemId
     /\ openingBalances' = st.openingBalances
     /\ lastUpsert' = st.lastUpsert
     /\ UNCHANGED <<inFlight, db>>
     /\ resp' = IF ~st.ok THEN ImportReply(Reply("importItems", 500), rows)
                ELSE IF st.upserted
                THEN ImportReply(UpsertReply("importItems", 200, st.matched),
                                 rows)
                ELSE ImportReply(Reply("importItems", 200), rows)
     /\ UNCHANGED <<bomLines, salesPlans, productionOrders, purchaseOrders,
                    purchaseOrderLines>>

(***************************************************************************)
(* The registry under requests served one after another                    *)
(***************************************************************************)
Arg(w, q) == [year |-> w.year, week |-> w.week, qty |-> q]
NoArg == [year |-> UNDEFINED, week |-> UNDEFINED, qty |-> UNDEFINED]

\* opening balance fields of a request body: two that the table accepts, one
\* whose week the CHECK refuses
Early == Arg(FirstWeek, 0)
Late == Arg(WeekAfter(FirstWeek, MaxWeeks - 1), MaxQty)
BadWeek == Arg(WK(BaseYear, WeeksPerYear + 1), MaxQty)

ItemIds == 1..MaxItems
Codes == {"a", "b"}

\* <<itemType, itemId, fields>> of PUT /api/opening-balance
PutOpeningRequests ==
  ({"P", "M"} \X ItemIds \X {Early, Late})
    \cup {<<"P", 1, BadWeek>>, <<"p", 1, Early>>, <<"P", 0, Early>>,
          <<"M", 1, NoArg>>}

\* <<type, code, name, fields>> of POST /api/items
PostItemRequests ==
  ({"P"} \X Codes \X {"n"} \X {NoArg, Early})
    \cup {<<"m", "a", "n", Early>>, <<"x", "a", "n", NoArg>>, <<"P", "", "n", NoArg>>,
          <<"M", "a", "", NoArg>>}

\* <<type, id, code, fields>> of PUT /api/items/:type/:id
PutItemRequests ==
  ({"p"} \X ItemIds \X {"", "b"} \X {NoArg, Late})
    \cup ({"M"} \X ItemIds \X {""} \X {Late})
    \cup {<<"M", 1, "", BadWeek>>, <<"x", 1, "", Late>>, <<"P", 0, "", Late>>}

\* <<type, id>> of DELETE /api/items/:type/:id
DeleteItemRequests ==
  ({"P", "m"} \X ItemIds) \cup {<<"x", 1>>, <<"M", NULL>>}

SheetRow(type, code, a, openingBalance) ==
  [Type |-> type, Code |-> code, Name |-> "n", StartYear |-> a.year,
   StartWeek |-> a.week, Balance |-> a.qty, OpeningBalance |-> openingBalance]

\* first sheets of an uploaded workbook: without and with an OpeningBalance
\* column, a blank Balance cell being null
ImportSheets ==
  LET pLate == SheetRow("p", "a", Late, UNDEFINED)
      mLate == SheetRow("M", "b", Late, UNDEFINED)
      pBlank == SheetRow("P", "a", Arg(FirstWeek, NULL), UNDEFINED)
      skipped == SheetRow("x", "a", Late, UNDEFINED)
      pZero == SheetRow("P", "b", Early, NULL)
      mOther == SheetRow("M", "a", Arg(FirstWeek, NULL), 0)
  IN {<<>>, <<pLate>>, <<mLate>>, <<pBlank>>, <<skipped, mLate>>,
      <<pLate, mLate>>, <<pLate, pBlank>>, <<pZero, mOther>>, <<mOther>>,
      <<mOther, pZero>>}

InitOB ==
  /\ products = {}
  /\ materials = {}
  /\ nextItemId = [P |-> 1, M |-> 1]
  /\ openingBalances = {}
  /\ bomLines = {}
  /\ salesPlans = {}
  /\ productionOrders = {}
  /\ purchaseOrders = {}
  /\ purchaseOrderLines = {}
  /\ resp = NoResp
  /\ lastUpsert = {}
  /\ inFlight = <<>>
  /\ NoPool

NextOB ==
  \/ \E r \in PutOpeningRequests : PutOpeningBalance(r[1], r[2], r[3])
  \/ \E r \in PostItemRequests : PostItem(r[1], r[2], r[3], r[4])
  \/ \E r \in PutItemRequests : PutItem(r[1], r[2], r[3], r[4])
  \/ \E r \in DeleteItemRequests : DeleteItem(r[1], r[2])
  \/ \E rows \in ImportSheets : ImportItems(rows)

SpecOB == InitOB /\ [][NextOB]_vars

\* C6: whatever requests were served, the registry holds at most one opening
\* balance row per (ItemType, ItemId), and a key's row carries the year, week
\* and quantity of the latest upsert of that key that succeeded.
C6_SingleOpeningRow ==
  \A r \in openingBalances :
    /\ \A r2 \in openingBalances :
         OpeningKey(r2, r.ItemType, r.ItemId) => r2 = r
    /\ \E u \in lastUpsert :
         /\ OpeningKey(u, r.ItemType, r.ItemId)
         /\ u.StartYear = r.StartYear
         /\ u.StartWeek = r.StartWeek
         /\ u.BalanceQty = r.BalanceQty

\* an import whose last upsert found its key's row, two keys being held
C6_Witness ==
  /\ resp.kind = "importItems"
  /\ resp.status = 200
  /\ "matched" \in DOMAIN resp
  /\ resp.matched
  /\ Cardinality(openingBalances) = 2
  /\ Cardinality(lastUpsert) = 2

(***************************************************************************)
(* Concurrent PUT /api/opening-balance requests on one key                 *)
(*                                                                         *)
(* The MERGE carries no HOLDLOCK hint: at READ COMMITTED the evaluation of *)
(* its ON clause and the UPDATE or INSERT it then runs are two steps that  *)
(* the statements of other connections may come between.  The UNIQUE       *)
(* constraint is checked by the INSERT itself.  A table is a set of rows:  *)
(* under UNIQUE(ItemType, ItemId) no two of its rows are equal.            *)
(***************************************************************************)
\* largest number of requests in flight together
MaxUpserts == 2

Racers == 1..MaxUpserts
\* the key the requests upsert
RaceKey == [ItemType |-> "P", ItemId |-> 1]
Middle == Arg(NextWeek(FirstWeek), MaxQty)

\* the ON clause of request p's MERGE is evaluated
PutOpeningBalanceMatch(p) ==
  /\ inFlight[p].pc = "match"
  /\ inFlight' = [inFlight EXCEPT
                    ![p].pc = "apply",
                    ![p].matched =
                      MergeMatched(openingBalances, RaceKey.ItemType, RaceKey.ItemId)]
  /\ UNCHANGED <<tables, resp, lastUpsert, db>>

\* request p's MERGE runs its UPDATE or INSERT and the handler replies
PutOpeningBalanceApply(p) ==
  /\ inFlight[p].pc = "apply"
  /\ LET a == inFlight[p].a
         m == MergeApply(openingBalances, inFlight[p].matched, RaceKey.ItemType,
                         RaceKey.ItemId, a.year, a.week, a.qty)
     IN /\ openingBalances' = m.rows
        /\ lastUpsert' = IF m.ok
                         THEN RecordUpsert(lastUpsert, RaceKey.ItemType, RaceKey.ItemId,
                                           a.year, a.week, a.qty)
                         ELSE lastUpsert
        /\ inFlight' = [inFlight EXCEPT
                          ![p].pc = "done",
                          ![p].status = IF m.ok THEN 200 ELSE 500]
        /\ resp' = Reply("putOpeningBalance", IF m.ok THEN 200 ELSE 500)
  /\ UNCHANGED <<products, materials, nextItemId, bomLines, salesPlans,
                 productionOrders, purchaseOrders, purchaseOrderLines, db>>

\* the key has no row, or the row of an earlier upsert; every request passed
\* the handler's validation with fields the table accepts
InitRace ==
  /\ products = {[id |-> RaceKey.ItemId, code |-> "a"]}
  /\ materials = {}
  /\ nextItemId = [P |-> RaceKey.ItemId + 1, M |-> 1]
  /\ openingBalances \in
       {{}, {MkOpeningBalance(RaceKey.ItemType, RaceKey.ItemId, FirstWeek, MaxQty + 1)}}
  /\ bomLines = {}
  /\ salesPlans = {}
  /\ productionOrders = {}
  /\ purchaseOrders = {}
  /\ purchaseOrderLines = {}
  /\ resp = NoResp
  /\ lastUpsert = {}
  /\ \E as \in [Racers -> {Early, Middle, Late}] :
       inFlight = [p \in Racers |->
                     [pc |-> "match", matched |-> FALSE, status |-> 0,
                      a |-> as[p]]]
  /\ NoPool

NextRace ==
  \E p \in Racers : PutOpeningBalanceMatch(p) \/ PutOpeningBalanceApply(p)

SpecRace == InitRace /\ [][NextRace]_vars

RaceRows == {r \in openingBalances : OpeningKey(r, RaceKey.ItemType, RaceKey.ItemId)}
RaceDone == \A p \in Racers : inFlight[p].pc = "done"

\* C7: in every interleaving of the match and insert/update steps of
\* concurrent upserts of one key the key never has two rows, and when the
\* requests have ended it has exactly one row, which holds the year, week and
\* quantity of one of the upserts.
C7_ConcurrentUpserts ==
  /\ Cardinality(RaceRows) <= 1
  /\ RaceDone =>
       /\ Cardinality(RaceRows) = 1
       /\ \A r \in RaceRows :
            \E p \in Racers :
              /\ r.StartYear = inFlight[p].a.year
              /\ r.StartWeek = inFlight[p].a.week
              /\ r.BalanceQty = inFlight[p].a.qty

\* two requests with different fields both found no row; the INSERT of the
\* later one was refused
C7_Witness ==
  /\ RaceDone
  /\ \E p, q \in Racers :
       /\ p # q
       /\ inFlight[p].a # inFlight[q].a
       /\ ~inFlight[p].matched /\ ~inFlight[q].matched
       /\ inFlight[p].status = 200
       /\ inFlight[q].status = 500

(***************************************************************************)
(* PUT /api/sales-plan: a batch of plan rows in one transaction            *)
(***************************************************************************)
\* largest number of plan rows in a request body
MaxPlans == 2

SalesKey(r, productId, year, week) ==
  r.ProductId = productId /\ r.PlanYear = year /\ r.PlanWeek = week

\* PlanYear NOT NULL; CHECK (PlanWeek >= 1 AND PlanWeek <= 53);
\* FOREIGN KEY (ProductId) REFERENCES Products(ProductId)
SalesRowValid(productId, year, week) ==
  /\ year # NULL /\ year # UNDEFINED
  /\ week >= 1 /\ week <= WeeksPerYear
  /\ \E i \in products : i.id = productId

\* p.qty || 0
QtyOrZero(qty) == IF Falsy(qty) THEN 0 ELSE qty

\* mutant: a MERGE whose ON clause never matches, on a table without the
\* UNIQUE constraint
MergeSalesPlan_AlwaysInserts(rows, productId, year, week, qty) ==
  IF ~SalesRowValid(productId, year, week)
  THEN [ok |-> FALSE, rows |-> rows]
  ELSE [ok |-> TRUE,
        rows |-> rows \cup {[ProductId |-> productId, PlanYear |-> year,
                             PlanWeek |-> week, ShipQty |-> qty]}]

\* MERGE SalesPlans ... for one plan row; ok is false when it fails
MergeSalesPlan(rows, productId, year, week, qty) ==
  IF \E r \in rows : SalesKey(r, productId, year, week)
  THEN [ok |-> TRUE,
        rows |-> {IF SalesKey(r, productId, year, week)
                  THEN [r EXCEPT !.ShipQty = qty] ELSE r : r \in rows}]
  ELSE IF ~SalesRowValid(productId, year, week)
  THEN [ok |-> FALSE, rows |-> rows]
  ELSE [ok |-> TRUE,
        rows |-> rows \cup {[ProductId |-> productId, PlanYear |-> year,
                             PlanWeek |-> week, ShipQty |-> qty]}]

\* the loop over plans inside the transaction; the first failing statement
\* throws and ends it
RECURSIVE RunPlans(_, _, _)
RunPlans(t, productId, plans) ==
  IF plans = <<>> \/ ~t.ok THEN t
  ELSE LET p == Head(plans)
       IN RunPlans(MergeSalesPlan(t.rows, productId, p.year, p.week,
                                  QtyOrZero(p.qty)),
                   productId, Tail(plans))

\* mutant: the catch block replies without rolling the transaction back
Rollback_KeepsWork(before, work) == work

\* transaction.rollback(): the table as it was at transaction.begin()
Rollback(before, work) == before

\* the reply, with the request and the table as the request found it
SalesReply(status, productId, plans) ==
  [kind |-> "putSalesPlan", status |-> status, productId |-> productId,
   plans |-> plans, before |-> salesPlans]

\* PUT /api/sales-plan; isArray is Array.isArray(plans)
PutSalesPlan(productId, isArray, plans) ==
  /\ UNCHANGED <<products, materials, nextItemId, openingBalances, bomLines,
                 productionOrders, purchaseOrders, purchaseOrderLines,
                 lastUpsert, inFlight, db>>
  /\ IF Falsy(productId) \/ ~isArray
     THEN /\ resp' = SalesReply(400, productId, <<>>)
          /\ UNCHANGED salesPlans
     ELSE LET t == RunPlans([ok |-> TRUE, rows |-> salesPlans], productId,
                            plans)
          IN IF t.ok
             THEN /\ salesPlans' = t.rows
                  /\ resp' = SalesReply(200, productId, plans)
             ELSE /\ salesPlans' = Rollback(salesPlans, t.rows)
                  /\ resp' = SalesReply(500, productId, plans)

Plan(w, q) == [year |-> w.year, week |-> w.week, qty |-> q]

\* plan rows of a body: two weeks, a week written twice with and without a
\* quantity, and a week the CHECK refuses
PlanInputs ==
  {Plan(FirstWeek, MaxQty), Plan(FirstWeek, UNDEFINED),
   Plan(NextWeek(FirstWeek), MaxQty + 1),
   Plan(WK(BaseYear, WeeksPerYear + 1), MaxQty)}

RECURSIVE PlanLists(_)
PlanLists(n) ==
  IF n = 0 THEN {<<>>}
  ELSE LET shorter == PlanLists(n - 1)
       IN shorter \cup {Append(l, p) : l \in {x \in shorter : Len(x) = n - 1},
                                       p \in PlanInputs}

\* product 1 exists, product 2 does not
InitSales ==
  /\ products = {[id |-> 1, code |-> "a"]}
  /\ materials = {}
  /\ nextItemId = [P |-> 2, M |-> 1]
  /\ openingBalances = {}
  /\ bomLines = {}
  /\ salesPlans = {}
  /\ productionOrders = {}
  /\ purchaseOrders = {}
  /\ purchaseOrderLines = {}
  /\ resp = NoResp
  /\ lastUpsert = {}
  /\ inFlight = <<>>
  /\ NoPool

NextSales ==
  \/ \E productId \in {1, 2}, plans \in PlanLists(MaxPlans) :
       PutSalesPlan(productId, TRUE, plans)
  \/ \E productId \in {UNDEFINED, 1} : PutSalesPlan(productId, FALSE, <<>>)
  \/ \E plans \in PlanLists(1) : PutSalesPlan(UNDEFINED, TRUE, plans)

SpecSales == InitSales /\ [][NextSales]_vars

\* a plan row the table accepts for the product, stated on the request
PlanAcceptable(productId, p) ==
  /\ p.week \in 1..WeeksPerYear
  /\ productId \in {i.id : i \in products}

\* the quantity the request leaves for plan i's week: that of the last plan of
\* the batch for the same week
LastQtyFor(plans, i) ==
  LET same == {j \in DOMAIN plans : /\ plans[j].year = plans[i].year
                                    /\ plans[j].week = plans[i].week}
      last == CHOOSE j \in same : \A k \in same : k <= j
  IN IF plans[last].qty \in {NULL, UNDEFINED} THEN 0 ELSE plans[last].qty

\* C8: a PUT /api/sales-plan that replies with a failure leaves SalesPlans as
\* the request found it; one that replies with success has written every row
\* of its batch and nothing else; it fails exactly when the batch holds a row
\* whose write fails.
C8_AllOrNothing ==
  resp.kind = "putSalesPlan" =>
    /\ resp.status # 200 => salesPlans = resp.before
    /\ resp.status = 500 <=>
         /\ resp.productId \in {1, 2}
         /\ \E i \in DOMAIN resp.plans :
              ~PlanAcceptable(resp.productId, resp.plans[i])
    /\ resp.status = 200 =>
         /\ \A i \in DOMAIN resp.plans :
              \E r \in salesPlans :
                /\ SalesKey(r, resp.productId, resp.plans[i].year,
                            resp.plans[i].week)
                /\ r.ShipQty = LastQtyFor(resp.plans, i)
         /\ \A r \in salesPlans :
              \/ r \in resp.before
              \/ \E i \in DOMAIN resp.plans :
                   SalesKey(r, resp.productId, resp.plans[i].year,
                            resp.plans[i].week)
         /\ \A r \in resp.before :
              \E r2 \in salesPlans :
                SalesKey(r2, r.ProductId, r.PlanYear, r.PlanWeek)

\* a batch whose first row changed a stored week and whose second row failed
C8_Witness ==
  /\ resp.kind = "putSalesPlan"
  /\ resp.status = 500
  /\ Len(resp.plans) = 2
  /\ resp.before # {}
  /\ \E r \in resp.before :
       /\ SalesKey(r, resp.productId, resp.plans[1].year, resp.plans[1].week)
       /\ r.ShipQty # QtyOrZero(resp.plans[1].qty)

\* the batch of the reply names the key of row r
NamedInBatch(r) ==
  \E i \in DOMAIN resp.plans :
    SalesKey(r, resp.productId, resp.plans[i].year, resp.plans[i].week)

\* C24 (one sales-plan row per key): SalesPlans never holds two rows of one
\* (productId, year, week); after a batch that was committed, the row of
\* every key of the batch holds the quantity of the last entry of the batch
\* for that key, 0 when that entry has no quantity, and the rows of the keys
\* that the batch does not name are the rows the request found.
C24_OneRowPerKey ==
  /\ \A r, r2 \in salesPlans :
       SalesKey(r2, r.ProductId, r.PlanYear, r.PlanWeek) => r2 = r
  /\ (resp.kind = "putSalesPlan" /\ resp.status = 200) =>
       /\ \A i \in DOMAIN resp.plans :
            LET hit == {r \in salesPlans :
                          SalesKey(r, resp.productId, resp.plans[i].year,
                                   resp.plans[i].week)}
            IN /\ Cardinality(hit) = 1
               /\ \A r \in hit : r.ShipQty = LastQtyFor(resp.plans, i)
       /\ {r \in salesPlans : ~NamedInBatch(r)} =
            {r \in resp.before : ~NamedInBatch(r)}

\* a committed batch that names a stored week twice, last without a
\* quantity, while the row of another week is stored
C24_Witness ==
  /\ resp.kind = "putSalesPlan"
  /\ resp.status = 200
  /\ Len(resp.plans) = 2
  /\ resp.plans[1].year = resp.plans[2].year
  /\ resp.plans[1].week = resp.plans[2].week
  /\ resp.plans[1].qty > 0
  /\ resp.plans[2].qty = UNDEFINED
  /\ \E r \in resp.before : NamedInBatch(r) /\ r.ShipQty > 0
  /\ \E r \in salesPlans : ~NamedInBatch(r)
  /\ \E r \in salesPlans : NamedInBatch(r) /\ r.ShipQty = 0

(***************************************************************************)
(* Production orders: GET /api/production and PUT /api/production-orders   *)
(*                                                                         *)
(* Status is NVARCHAR(20) with no CHECK; the handlers store it in upper    *)
(* case, the seed script and the other writers of the database need not.   *)
(***************************************************************************)
\* mutant: a listing that removes the orders it has returned
GetProduction_Consumes(productId, from, to) ==
  /\ ~RangeMissing(from, to)
  /\ resp' = [kind |-> "getProduction", status |-> 200, queried |-> TRUE,
              productId |-> productId, from |-> from, to |-> to,
              rows |-> ProductionRows(productId, from.year, from.week,
                                      to.year, to.week)]
  /\ productionOrders' =
       {o \in productionOrders :
          ~InRange(o.PlanYear, o.PlanWeek, from.year, from.week,
                   to.year, to.week)}
  /\ UNCHANGED <<products, materials, nextItemId, openingBalances, bomLines,
                 salesPlans, purchaseOrders, purchaseOrderLines, lastUpsert,
                 inFlight, db>>

\* GET /api/production; from and to are the parsed year and week parameters
GetProduction(productId, from, to) ==
  /\ resp' =
       IF RangeMissing(from, to)
       THEN RangeRejected("getProduction", productId, from, to)
       ELSE [kind |-> "getProduction", status |-> 200, queried |-> TRUE,
             productId |-> productId, from |-> from, to |-> to,
             rows |-> ProductionRows(productId, from.year, from.week,
                                     to.year, to.week)]
  /\ UNCHANGED <<tables, lastUpsert, inFlight, db>>

NoStatus == <<>>

\* the row a full update leaves; COALESCE(@x, X) of a declared parameter
UpdatedOrder(o, body, normStatus) ==
  [o EXCEPT !.ProductId = body.productId, !.Quantity = body.quantity,
            !.PlanYear = body.planYear, !.PlanWeek = body.planWeek,
            !.Status = normStatus]

\* an IDENTITY value for a new row: the least id that no row has
FreshId(ids) == CHOOSE i \in 1..(Cardinality(ids) + 1) : i \notin ids

\* mutant: the set of statuses is open to one more word
ProductionOrderStatuses_Open == {INITIAL, ACTIVE, COMPLETE, <<"X">>}

ProductionOrderStatuses == {INITIAL, ACTIVE, COMPLETE}

\* (status || "INITIAL").toUpperCase()
NormStatus(status) == IF status = NoStatus THEN INITIAL ELSE Upper(status)

\* ProductionOrders: CHECK (PlanWeek 1..53), the foreign key to Products
ProductionRowValid(productId, planWeek) ==
  /\ planWeek >= 1 /\ planWeek <= WeeksPerYear
  /\ \E i \in products : i.id = productId

\* POST /api/production-orders; an absent body field is UNDEFINED, an absent
\* status is the empty string
PostProductionOrder(body) ==
  LET normStatus == NormStatus(body.status)
      newId == FreshId({o.ProductionOrderId : o \in productionOrders})
      reply(status, id) ==
        [kind |-> "postProductionOrder", status |-> status, id |-> id,
         body |-> body, before |-> productionOrders]
  IN /\ UNCHANGED <<products, materials, nextItemId, openingBalances,
                    bomLines, salesPlans, purchaseOrders, purchaseOrderLines,
                    lastUpsert, inFlight, db>>
     /\ IF \/ Falsy(body.productId) \/ Falsy(body.quantity)
           \/ Falsy(body.planYear) \/ Falsy(body.planWeek)
        THEN resp' = reply(400, 0) /\ UNCHANGED productionOrders
        ELSE IF normStatus \notin ProductionOrderStatuses
        THEN resp' = reply(400, 0) /\ UNCHANGED productionOrders
        ELSE IF ~ProductionRowValid(body.productId, body.planWeek)
        THEN resp' = reply(500, 0) /\ UNCHANGED productionOrders
        ELSE /\ productionOrders' = productionOrders \cup
                  {[ProductionOrderId |-> newId, ProductId |-> body.productId,
                    Quantity |-> body.quantity, PlanYear |-> body.planYear,
                    PlanWeek |-> body.planWeek, Status |-> normStatus]}
             /\ resp' = reply(201, newId)

\* PUT /api/production-orders/:id; a body field that is absent is UNDEFINED,
\* an absent status is the empty string.  The statement names all five
\* parameters: one that was not declared makes it fail.
PutProductionOrder(id, body) ==
  LET normStatus == IF body.status = NoStatus THEN NoStatus
                    ELSE Upper(body.status)
      declared == /\ ~Falsy(body.productId)
                  /\ body.quantity \notin {NULL, UNDEFINED}
                  /\ ~Falsy(body.planYear)
                  /\ ~Falsy(body.planWeek)
                  /\ normStatus # NoStatus
      target == {o \in productionOrders : o.ProductionOrderId = id}
      accepted == /\ body.planWeek >= 1 /\ body.planWeek <= WeeksPerYear
                  /\ \E i \in products : i.id = body.productId
      reply(status) == [kind |-> "putProductionOrder", status |-> status,
                        id |-> id, body |-> body, before |-> productionOrders]
  IN /\ UNCHANGED <<products, materials, nextItemId, openingBalances,
                    bomLines, salesPlans, purchaseOrders, purchaseOrderLines,
                    lastUpsert, inFlight, db>>
     /\ IF Falsy(id)
        THEN resp' = reply(400) /\ UNCHANGED productionOrders
        ELSE IF /\ normStatus # NoStatus
                /\ normStatus \notin {INITIAL, ACTIVE, COMPLETE}
        THEN resp' = reply(400) /\ UNCHANGED productionOrders
        ELSE IF ~declared \/ (target # {} /\ ~accepted)
        THEN resp' = reply(500) /\ UNCHANGED productionOrders
        ELSE /\ productionOrders' =
                  (productionOrders \ target)
                    \cup {UpdatedOrder(o, body, normStatus) : o \in target}
             /\ resp' = reply(200)

LowerActive == <<"a", "c", "t", "i", "v", "e">>
MixedComplete == <<"C", "o", "m", "p", "l", "e", "t", "e">>
LowerInitial == <<"i", "n", "i", "t", "i", "a", "l">>
MixedActive == <<"A", "c", "t", "i", "v", "e">>

StoredProductionStatuses ==
  {LowerActive, MixedComplete, LowerInitial, INITIAL, ACTIVE}

ProductionWeeks == {FirstWeek, NextWeek(FirstWeek)}

RECURSIVE Pow2(_)
Pow2(n) == IF n = 0 THEN 1 ELSE 2 * Pow2(n - 1)

\* up to MaxOrders orders of products 1 and 2; order i has quantity 2^(i-1),
\* so that a sum tells which orders are in it
ProductionStores ==
  UNION {{{[ProductionOrderId |-> i, ProductId |-> f[i].p,
            Quantity |-> Pow2(i - 1), PlanYear |-> f[i].w.year,
            PlanWeek |-> f[i].w.week, Status |-> f[i].s] : i \in 1..n} :
            f \in [1..n -> [p : {1, 2}, w : ProductionWeeks,
                            s : StoredProductionStatuses]]} :
           n \in 0..MaxOrders}

InitProduction ==
  /\ products = {[id |-> 1, code |-> "a"], [id |-> 2, code |-> "b"]}
  /\ materials = {}
  /\ nextItemId = [P |-> 3, M |-> 1]
  /\ openingBalances = {}
  /\ bomLines = {}
  /\ salesPlans = {}
  /\ productionOrders \in ProductionStores
  /\ purchaseOrders = {}
  /\ purchaseOrderLines = {}
  /\ resp = NoResp
  /\ lastUpsert = {}
  /\ inFlight = <<>>
  /\ NoPool

\* the body a client sends to change the status of order o
StatusChange(o, status) ==
  [productId |-> o.ProductId, quantity |-> o.Quantity,
   planYear |-> o.PlanYear, planWeek |-> o.PlanWeek, status |-> status]

StatusOnly(status) ==
  [productId |-> UNDEFINED, quantity |-> UNDEFINED, planYear |-> UNDEFINED,
   planWeek |-> UNDEFINED, status |-> status]

NextProduction ==
  \/ \E productId \in {NULL, 1, 2} :
       \E r \in {<<FirstWeek, NextWeek(FirstWeek)>>,
                 <<NextWeek(FirstWeek), NextWeek(FirstWeek)>>,
                 <<WK(0, 1), FirstWeek>>} :
         GetProduction(productId, r[1], r[2])
  \/ \E o \in productionOrders :
       \E status \in {LowerInitial, MixedActive, <<"x">>} :
         PutProductionOrder(o.ProductionOrderId, StatusChange(o, status))
  \/ \E id \in {0, 1} : PutProductionOrder(id, StatusOnly(LowerInitial))

SpecProduction == InitProduction /\ [][NextProduction]_vars

\* the quantity of the orders of product p in week w, among orders, whose
\* status is ACTIVE or COMPLETE in some letter case
CountedQtyIn(orders, p, w) ==
  SumOver({o \in orders :
             /\ o.ProductId = p /\ o.PlanYear = w.year /\ o.PlanWeek = w.week
             /\ (SameWord(o.Status, ACTIVE) \/ SameWord(o.Status, COMPLETE))},
          [o \in orders |-> o.Quantity])

RowsFor(rows, p, w) ==
  {r \in rows : r.productId = p /\ r.year = w.year /\ r.week = w.week}

\* C9: GET /api/production returns, for each product it is asked for and each
\* week of the range, the summed quantity of exactly the orders whose status
\* is ACTIVE or COMPLETE in any letter case (no row when there is none, so an
\* INITIAL order in any case adds nothing); and after an update that turned
\* an ACTIVE order into INITIAL, the week's production quantity is what it
\* was less the order's quantity.
C9_ProductionStatusFilter ==
  /\ (resp.kind = "getProduction" /\ resp.status = 200) =>
       \A p \in {1, 2}, w \in ProductionWeeks :
         LET asked == /\ resp.productId \in {NULL, p}
                      /\ WeekLeq(resp.from, w) /\ WeekLeq(w, resp.to)
             counted == CountedQtyIn(productionOrders, p, w)
             rows == RowsFor(resp.rows, p, w)
         IN IF asked /\ counted > 0
            THEN Cardinality(rows) = 1 /\ \A r \in rows : r.qty = counted
            ELSE rows = {}
  /\ (resp.kind = "putProductionOrder" /\ resp.status = 200) =>
       \A o \in resp.before, n \in productionOrders :
         (/\ o.ProductionOrderId = resp.id
          /\ n.ProductionOrderId = resp.id
          /\ SameWord(o.Status, ACTIVE)
          /\ SameWord(n.Status, INITIAL)) =>
           LET w == WK(n.PlanYear, n.PlanWeek)
           IN QtyAt(ProductionRows(n.ProductId, w.year, w.week, w.year,
                                   w.week), w)
                = CountedQtyIn(resp.before, o.ProductId,
                               WK(o.PlanYear, o.PlanWeek)) - o.Quantity

\* an order stored as 'active' was turned into INITIAL while an order stored
\* as 'Complete' of the same product and week stays
C9_Witness ==
  /\ resp.kind = "putProductionOrder"
  /\ resp.status = 200
  /\ \E o \in resp.before, n, c \in productionOrders :
       /\ o.ProductionOrderId = resp.id
       /\ n.ProductionOrderId = resp.id
       /\ o.Status = LowerActive
       /\ n.Status = INITIAL
       /\ c.Status = MixedComplete
       /\ c.ProductId = n.ProductId
       /\ c.PlanYear = n.PlanYear /\ c.PlanWeek = n.PlanWeek

(***************************************************************************)
(* Purchase orders: GET /api/purchase                                      *)
(***************************************************************************)
\* GET /api/purchase; from and to are the parsed year and week parameters
GetPurchase(materialId, from, to) ==
  /\ resp' =
       IF RangeMissing(from, to)
       THEN RangeRejected("getPurchase", materialId, from, to)
       ELSE [kind |-> "getPurchase", status |-> 200, queried |-> TRUE,
             materialId |-> materialId, from |-> from, to |-> to,
             rows |-> PurchaseRows(materialId, from.year, from.week,
                                   to.year, to.week)]
  /\ UNCHANGED <<tables, lastUpsert, inFlight, db>>

LowerConfirm == <<"c", "o", "n", "f", "i", "r", "m">>

StoredPurchaseStatuses ==
  {LowerConfirm, MixedConfirm, CONFIRM, INITIAL, RECEIVED, CANCELLED}

\* up to MaxOrders orders with one line each, of materials 1 and 2; the line
\* of order i has quantity 2^(i-1)
PurchaseStores ==
  UNION {{[orders |-> {[PurchaseOrderId |-> i, Status |-> f[i].s] :
                         i \in 1..n},
           lines |-> {[PurchaseOrderLineId |-> i, PurchaseOrderId |-> i,
                       MaterialId |-> f[i].m, Quantity |-> Pow2(i - 1),
                       EtaYear |-> f[i].w.year, EtaWeek |-> f[i].w.week] :
                        i \in 1..n}] :
            f \in [1..n -> [m : {1, 2}, w : ProductionWeeks,
                            s : StoredPurchaseStatuses]]} :
           n \in 0..MaxOrders}

InitPurchase ==
  /\ products = {}
  /\ materials = {[id |-> 1, code |-> "a"], [id |-> 2, code |-> "b"]}
  /\ nextItemId = [P |-> 1, M |-> 3]
  /\ openingBalances = {}
  /\ bomLines = {}
  /\ salesPlans = {}
  /\ productionOrders = {}
  /\ \E st \in PurchaseStores :
       purchaseOrders = st.orders /\ purchaseOrderLines = st.lines
  /\ resp = NoResp
  /\ lastUpsert = {}
  /\ inFlight = <<>>
  /\ NoPool

NextPurchase ==
  \E materialId \in {NULL, 1, 2} :
    \E r \in {<<FirstWeek, NextWeek(FirstWeek)>>,
              <<FirstWeek, FirstWeek>>,
              <<FirstWeek, WK(BaseYear, NULL)>>} :
      GetPurchase(materialId, r[1], r[2])

SpecPurchase == InitPurchase /\ [][NextPurchase]_vars

PurchaseRowsFor(rows, m, w) ==
  {r \in rows : r.materialId = m /\ r.year = w.year /\ r.week = w.week}

\* C10: GET /api/purchase returns, for each material it is asked for and each
\* week of the range, the summed quantity of exactly the lines whose parent
\* order has status CONFIRM in some letter case; lines of orders in INITIAL,
\* RECEIVED or CANCELLED add nothing, and a week with no counted line has no
\* row.
C10_PurchaseStatusFilter ==
  (resp.kind = "getPurchase" /\ resp.status = 200) =>
    \A m \in {1, 2}, w \in ProductionWeeks :
      LET asked == /\ resp.materialId \in {NULL, m}
                   /\ WeekLeq(resp.from, w) /\ WeekLeq(w, resp.to)
          counted == PurchasedQty(m, w)
          rows == PurchaseRowsFor(resp.rows, m, w)
      IN IF asked /\ counted > 0
         THEN Cardinality(rows) = 1 /\ \A r \in rows : r.qty = counted
         ELSE rows = {}

\* a reply whose row sums the lines of an order stored as 'confirm' and of
\* one stored as 'Confirm'
C10_Witness ==
  /\ resp.kind = "getPurchase"
  /\ resp.status = 200
  /\ \E a, b \in purchaseOrders, la, lb \in purchaseOrderLines :
       /\ a.Status = LowerConfirm /\ b.Status = MixedConfirm
       /\ la.PurchaseOrderId = a.PurchaseOrderId
       /\ lb.PurchaseOrderId = b.PurchaseOrderId
       /\ \E r \in resp.rows :
            /\ r.materialId = la.MaterialId /\ r.materialId = lb.MaterialId
            /\ r.qty = la.Quantity + lb.Quantity

(***************************************************************************)
(* BOM-derived consumption: GET /api/materials and the deriver fed by it   *)
(***************************************************************************)
\* GET /api/materials
GetMaterials(productId) ==
  /\ resp' = IF Falsy(productId) THEN Reply("getMaterials", 400)
             ELSE [kind |-> "getMaterials", status |-> 200,
                   productId |-> productId,
                   rows |-> MaterialsRows(productId)]
  /\ UNCHANGED <<tables, lastUpsert, inFlight, db>>

\* the consumption of material materialId derived for product productId over
\* the weeks from..to
DeriveConsumption(productId, materialId, from, to) ==
  /\ resp' = [kind |-> "consumption", productId |-> productId,
              materialId |-> materialId, from |-> from, to |-> to,
              rows |-> ConsumptionRows(productId, materialId, from, to)]
  /\ UNCHANGED <<tables, lastUpsert, inFlight, db>>

BomItems == {1, 2}

\* product 2 never uses material 2
BomPairs == (BomItems \X BomItems) \ {<<2, 2>>}

\* per (product, material) no line or one line (UNIQUE(ProductId,
\* MaterialId)) with a rate of 1..MaxRate
BomStores ==
  {{[ProductId |-> k[1], MaterialId |-> k[2], ConsumePerUnit |-> f[k]] :
      k \in {x \in BomPairs : f[x] > 0}} :
     f \in [BomPairs -> 0..MaxRate]}

\* no, one or two orders of products 1 and 2; order i has quantity 2^(i-1)
BomProductionStores ==
  UNION {{{[ProductionOrderId |-> i, ProductId |-> f[i].p,
            Quantity |-> Pow2(i - 1), PlanYear |-> f[i].w.year,
            PlanWeek |-> f[i].w.week, Status |-> f[i].s] : i \in 1..n} :
            f \in [1..n -> [p : BomItems, w : ProductionWeeks,
                            s : {ACTIVE, INITIAL}]]} :
           n \in {0, 1, 2}}

InitBom ==
  /\ products = {[id |-> 1, code |-> "a"], [id |-> 2, code |-> "b"]}
  /\ materials = {[id |-> 1, code |-> "a"], [id |-> 2, code |-> "b"]}
  /\ nextItemId = [P |-> 3, M |-> 3]
  /\ openingBalances = {}
  /\ bomLines \in BomStores
  /\ salesPlans = {}
  /\ productionOrders \in BomProductionStores
  /\ purchaseOrders = {}
  /\ purchaseOrderLines = {}
  /\ resp = NoResp
  /\ lastUpsert = {}
  /\ inFlight = <<>>
  /\ NoPool

NextBom ==
  \/ \E productId \in {NULL} \cup BomItems : GetMaterials(productId)
  \/ \E productId \in BomItems, materialId \in BomItems :
       \E r \in {<<FirstWeek, NextWeek(FirstWeek)>>,
                 <<FirstWeek, FirstWeek>>} :
         DeriveConsumption(productId, materialId, r[1], r[2])

SpecBom == InitBom /\ [][NextBom]_vars

\* C11: the consumption derived for a product and a material has, in each
\* week of the range, the product's counted production quantity of the week
\* times the consume-per-unit of the product's BOM line for that material, the
\* lines of other materials and of other products playing no part; with no
\* such line (and so for a product with no BOM lines) it is zero every week.
C11_BomConsumption ==
  resp.kind = "consumption" =>
    LET lines == {b \in bomLines : /\ b.ProductId = resp.productId
                                   /\ b.MaterialId = resp.materialId}
    IN /\ \A w \in ProductionWeeks :
            LET rows == {r \in resp.rows :
                           r.year = w.year /\ r.week = w.week}
            IN /\ Cardinality(rows) <= 1
               /\ IF WeekLeq(resp.from, w) /\ WeekLeq(w, resp.to)
                  THEN QtyAt(resp.rows, w)
                         = ConsumedQty(resp.productId, resp.materialId, w)
                  ELSE rows = {}
       /\ lines = {} => resp.rows = {}
       /\ \A b \in lines, r \in resp.rows :
            r.qty = b.ConsumePerUnit
                      * ProducedQty(resp.productId, WK(r.year, r.week))

\* a product with lines of different rates for the two materials and counted
\* production, the consumption of one material being derived
C11_Witness ==
  /\ resp.kind = "consumption"
  /\ resp.rows # {}
  /\ \E b, c \in bomLines :
       /\ b.ProductId = resp.productId /\ c.ProductId = resp.productId
       /\ b.MaterialId = resp.materialId /\ c.MaterialId # resp.materialId
       /\ b.ConsumePerUnit # c.ConsumePerUnit
  /\ \E o, q \in productionOrders :
       /\ o # q
       /\ o.ProductId = resp.productId /\ q.ProductId = resp.productId
       /\ o.Status = ACTIVE /\ q.Status = ACTIVE
       /\ o.PlanWeek = q.PlanWeek

(***************************************************************************)
(* Ledger aggregation over weeks of two years                              *)
(***************************************************************************)
LedgerItems == {1, 2}

LedgerContent ==
  [item : LedgerItems, w : InputWeeks, counted : BOOLEAN]

\* up to three production orders; order i has quantity 2^(i-1)
LedgerProductionStores ==
  UNION {{{[ProductionOrderId |-> i, ProductId |-> f[i].item,
            Quantity |-> Pow2(i - 1), PlanYear |-> f[i].w.year,
            PlanWeek |-> f[i].w.week,
            Status |-> IF f[i].counted THEN ACTIVE ELSE INITIAL] :
             i \in 1..n} :
            f \in [1..n -> LedgerContent]} :
           n \in 0..3}

\* up to three purchase orders of one line; line i has quantity 2^(i-1)
LedgerPurchaseStores ==
  UNION {{[orders |-> {[PurchaseOrderId |-> i,
                        Status |-> IF f[i].counted THEN CONFIRM
                                   ELSE RECEIVED] : i \in 1..n},
           lines |-> {[PurchaseOrderLineId |-> i, PurchaseOrderId |-> i,
                       MaterialId |-> f[i].item, Quantity |-> Pow2(i - 1),
                       EtaYear |-> f[i].w.year, EtaWeek |-> f[i].w.week] :
                        i \in 1..n}] :
            f \in [1..n -> LedgerContent]} :
           n \in 0..3}

InitLedger ==
  /\ products = {[id |-> 1, code |-> "a"], [id |-> 2, code |-> "b"]}
  /\ materials = {[id |-> 1, code |-> "a"], [id |-> 2, code |-> "b"]}
  /\ nextItemId = [P |-> 3, M |-> 3]
  /\ openingBalances = {}
  /\ bomLines = {}
  /\ salesPlans = {}
  /\ \/ /\ productionOrders \in LedgerProductionStores
        /\ purchaseOrders = {}
        /\ purchaseOrderLines = {}
     \/ /\ productionOrders = {}
        /\ \E st \in LedgerPurchaseStores :
             purchaseOrders = st.orders /\ purchaseOrderLines = st.lines
  /\ resp = NoResp
  /\ lastUpsert = {}
  /\ inFlight = <<>>
  /\ NoPool

NextLedger ==
  \E from \in InputWeeks :
  \E to \in {w \in InputWeeks : WeekLeq(from, w)} :
  \E id \in {NULL, 1} :
    \/ resp = NoResp /\ GetProduction(id, from, to)
    \/ resp = NoResp /\ GetPurchase(id, from, to)

SpecLedger == InitLedger /\ [][NextLedger]_vars

IsLedgerReply ==
  resp.kind \in {"getProduction", "getPurchase"} /\ resp.status = 200

LedgerItemOf(r) ==
  IF resp.kind = "getProduction" THEN r.productId ELSE r.materialId

LedgerAsked ==
  IF resp.kind = "getProduction" THEN resp.productId ELSE resp.materialId

LedgerCounted(item, w) ==
  IF resp.kind = "getProduction" THEN CountedOrders(item, w)
  ELSE CountedLines(item, w)

LedgerSum(item, w) ==
  IF resp.kind = "getProduction" THEN ProducedQty(item, w)
  ELSE PurchasedQty(item, w)

\* C12: the recordset of GET /api/production and of GET /api/purchase has one
\* row per (item, year, week) that has an accepted row in the range, its
\* quantity the sum of the accepted rows at the key, and has no row whose
\* week is outside [from, to] in the year-then-week order.
C12_LedgerAggregation ==
  IsLedgerReply =>
    /\ \A r \in resp.rows :
         /\ WeekLeq(resp.from, WK(r.year, r.week))
         /\ WeekLeq(WK(r.year, r.week), resp.to)
         /\ LedgerAsked \in {NULL, LedgerItemOf(r)}
         /\ r.qty = LedgerSum(LedgerItemOf(r), WK(r.year, r.week))
         /\ \A r2 \in resp.rows :
              (/\ LedgerItemOf(r2) = LedgerItemOf(r)
               /\ r2.year = r.year /\ r2.week = r.week) => r2 = r
    /\ \A item \in LedgerItems, w \in InputWeeks :
         (/\ LedgerAsked \in {NULL, item}
          /\ WeekLeq(resp.from, w) /\ WeekLeq(w, resp.to)
          /\ LedgerCounted(item, w) # {}) =>
           \E r \in resp.rows :
             /\ LedgerItemOf(r) = item
             /\ r.year = w.year /\ r.week = w.week

\* a range from the last week of a year to the first of the next: a row that
\* sums two purchase lines of the new year, an accepted line of an earlier
\* week left out
C12_Witness ==
  /\ resp.kind = "getPurchase"
  /\ resp.status = 200
  /\ resp.from.year < resp.to.year
  /\ \E r \in resp.rows :
       /\ r.year = resp.to.year
       /\ Cardinality(CountedLines(r.materialId, WK(r.year, r.week))) = 2
  /\ \E m \in LedgerItems, w \in InputWeeks :
       /\ WeekLess(w, resp.from)
       /\ CountedLines(m, w) # {}

(***************************************************************************)
(* Purchase orders with their lines: POST and PUT /api/purchase-orders     *)
(*                                                                         *)
(* The handlers write header columns (PONumber, TotalAmount, ...) and line *)
(* columns (Unit, UnitPrice, TotalAmount) that schema.sql does not create; *)
(* they are taken to exist and, as nullable or defaulted values that no    *)
(* other statement reads, are left out of the rows.  An IDENTITY value     *)
(* only tells rows apart: a new row gets the least id no row of its table  *)
(* has.                                                                    *)
(***************************************************************************)
\* PurchaseOrderLines: NOT NULL columns, CHECK (EtaWeek 1..53), the foreign
\* keys to PurchaseOrders and Materials
LineRowValid(orders, purchaseOrderId, line) ==
  /\ line.quantity \notin {NULL, UNDEFINED}
  /\ line.etaYear \notin {NULL, UNDEFINED}
  /\ line.etaWeek >= 1 /\ line.etaWeek <= WeeksPerYear
  /\ \E m \in materials : m.id = line.materialId
  /\ \E o \in orders : o.PurchaseOrderId = purchaseOrderId

\* Amounts: a totalAmount of a body is a number of thousandths, a stored
\* TotalAmount a number of hundredths.
\* x || 0 and parseFloat(x) || 0 of a body amount that is a number or absent
AmountOf(v) == IF v \in {NULL, UNDEFINED} THEN 0 ELSE v

\* the value of a sql.Decimal(18, 2) parameter: the driver sends
\* Math.round(value * 10^2) as the digits of the number
ToDecimal2(m) == (m + 5) \div 10

RECURSIVE SumAmounts(_)
\* lines.reduce((sum, line) => sum + (parseFloat(line.totalAmount) || 0), 0)
SumAmounts(lines) ==
  IF lines = <<>> THEN 0
  ELSE AmountOf(Head(lines).totalAmount) + SumAmounts(Tail(lines))

\* SELECT SUM(TotalAmount) FROM PurchaseOrderLines WHERE PurchaseOrderId =
\* @id, with total || 0 for the NULL of no rows
SumOfLines(lines, id) ==
  LET own == {l \in lines : l.PurchaseOrderId = id}
  IN SumOver(own, [l \in own |-> l.TotalAmount])

\* INSERT INTO PurchaseOrderLines for each line, on the transaction t; the
\* first failing statement throws
RECURSIVE InsertLines(_, _, _)
InsertLines(t, purchaseOrderId, lines) ==
  IF lines = <<>> \/ ~t.ok THEN t
  ELSE LET line == Head(lines)
           next ==
             IF ~LineRowValid(t.orders, purchaseOrderId, line)
             THEN [t EXCEPT !.ok = FALSE]
             ELSE [t EXCEPT !.lines = @ \cup
                     {[PurchaseOrderLineId |->
                         FreshId({l.PurchaseOrderLineId : l \in t.lines}),
                       PurchaseOrderId |-> purchaseOrderId,
                       MaterialId |-> line.materialId,
                       Quantity |-> line.quantity,
                       TotalAmount |-> ToDecimal2(AmountOf(line.totalAmount)),
                       EtaYear |-> line.etaYear,
                       EtaWeek |-> line.etaWeek]}]
       IN InsertLines(next, purchaseOrderId, Tail(lines))

\* mutant: the catch block replies and the work of the transaction stays
RollbackPurchase_KeepsWork(before, work) == work

\* transaction.rollback() in the catch block of the purchase order handlers
RollbackPurchase(before, work) == before

PurchaseReply(kind, status, id, body) ==
  [kind |-> kind, status |-> status, id |-> id, body |-> body,
   before |-> [orders |-> purchaseOrders, lines |-> purchaseOrderLines]]

PurchaseOrderStatuses == {INITIAL, CONFIRM, RECEIVED, CANCELLED}

\* POST /api/purchase-orders; body.status is "" when absent, body.hasLines is
\* Array.isArray(lines)
PostPurchaseOrder(body) ==
  LET normStatus == IF body.status = NoStatus THEN INITIAL
                    ELSE Upper(body.status)
      poId == FreshId({o.PurchaseOrderId : o \in purchaseOrders})
      begun == [ok |-> TRUE,
                orders |-> purchaseOrders \cup
                             {[PurchaseOrderId |-> poId,
                               Status |-> normStatus,
                               TotalAmount |->
                                 ToDecimal2(SumAmounts(body.lines))]},
                lines |-> purchaseOrderLines]
      t == InsertLines(begun, poId, body.lines)
      end == IF t.ok THEN t
             ELSE RollbackPurchase(
                    [orders |-> purchaseOrders, lines |-> purchaseOrderLines],
                    t)
  IN /\ UNCHANGED <<products, materials, nextItemId, openingBalances,
                    bomLines, salesPlans, productionOrders, lastUpsert,
                    inFlight, db>>
     /\ IF \/ normStatus \notin PurchaseOrderStatuses
           \/ ~body.hasLines \/ body.lines = <<>>
        THEN /\ resp' = PurchaseReply("postPurchaseOrder", 400, 0, body)
             /\ UNCHANGED <<purchaseOrders, purchaseOrderLines>>
        ELSE /\ purchaseOrders' = end.orders
             /\ purchaseOrderLines' = end.lines
             /\ resp' = PurchaseReply("postPurchaseOrder",
                                      IF t.ok THEN 201 ELSE 500,
                                      IF t.ok THEN poId ELSE 0, body)

\* PUT /api/purchase-orders/:id; a status in the body updates the header,
\* lines in the body replace the order's lines and the header's TotalAmount
\* is set to the sum of the stored lines
PutPurchaseOrder(id, body) ==
  LET normStatus == IF body.status = NoStatus THEN NoStatus
                    ELSE Upper(body.status)
      updated == IF normStatus = NoStatus THEN purchaseOrders
                 ELSE {IF o.PurchaseOrderId = id
                       THEN [o EXCEPT !.Status = normStatus] ELSE o :
                         o \in purchaseOrders}
      cleared == {l \in purchaseOrderLines : l.PurchaseOrderId # id}
      begun == [ok |-> TRUE, orders |-> updated,
                lines |-> IF body.hasLines THEN cleared
                          ELSE purchaseOrderLines]
      inserted == IF body.hasLines THEN InsertLines(begun, id, body.lines)
                  ELSE begun
      t == IF body.hasLines /\ inserted.ok
           THEN [inserted EXCEPT !.orders =
                   {IF o.PurchaseOrderId = id
                    THEN [o EXCEPT !.TotalAmount =
                            SumOfLines(inserted.lines, id)]
                    ELSE o : o \in inserted.orders}]
           ELSE inserted
      end == IF t.ok THEN t
             ELSE RollbackPurchase(
                    [orders |-> purchaseOrders, lines |-> purchaseOrderLines],
                    t)
  IN /\ UNCHANGED <<products, materials, nextItemId, openingBalances,
                    bomLines, salesPlans, productionOrders, lastUpsert,
                    inFlight, db>>
     /\ IF \/ Falsy(id)
           \/ /\ normStatus # NoStatus
              /\ normStatus \notin PurchaseOrderStatuses
        THEN /\ resp' = PurchaseReply("putPurchaseOrder", 400, id, body)
             /\ UNCHANGED <<purchaseOrders, purchaseOrderLines>>
        ELSE /\ purchaseOrders' = end.orders
             /\ purchaseOrderLines' = end.lines
             /\ resp' = PurchaseReply("putPurchaseOrder",
                                      IF t.ok THEN 200 ELSE 500, id, body)

\* a line of a body with a totalAmount
PoLineAmount(materialId, quantity, w, totalAmount) ==
  [materialId |-> materialId, quantity |-> quantity, etaYear |-> w.year,
   etaWeek |-> w.week, totalAmount |-> totalAmount]

\* a line of a body without a totalAmount
PoLine(materialId, quantity, w) ==
  PoLineAmount(materialId, quantity, w, UNDEFINED)

\* lines of a body: none, accepted ones (one of them twice), one after which
\* a week the CHECK refuses follows, and one of a material that does not
\* exist
PoLineLists ==
  LET a == PoLine(1, 1, FirstWeek)
      b == PoLine(1, 2, NextWeek(FirstWeek))
      badWeek == PoLine(1, 1, WK(BaseYear, WeeksPerYear + 1))
      noMaterial == PoLine(2, 1, FirstWeek)
  IN {<<>>, <<a>>, <<a, a>>, <<b, a>>, <<a, badWeek>>, <<noMaterial>>}

PoBody(status, hasLines, lines) ==
  [status |-> status, hasLines |-> hasLines, lines |-> lines]

\* the table holds at most two orders
PoIds == {1, 2}

InitPO ==
  /\ products = {}
  /\ materials = {[id |-> 1, code |-> "a"]}
  /\ nextItemId = [P |-> 1, M |-> 2]
  /\ openingBalances = {}
  /\ bomLines = {}
  /\ salesPlans = {}
  /\ productionOrders = {}
  /\ purchaseOrders = {}
  /\ purchaseOrderLines = {}
  /\ resp = NoResp
  /\ lastUpsert = {}
  /\ inFlight = <<>>
  /\ NoPool

NextPO ==
  \/ \E status \in {NoStatus, LowerConfirm}, lines \in PoLineLists :
       /\ \E i \in PoIds : \A o \in purchaseOrders : o.PurchaseOrderId # i
       /\ PostPurchaseOrder(PoBody(status, TRUE, lines))
  \/ \E body \in {PoBody(<<"x">>, TRUE, <<PoLine(1, 1, FirstWeek)>>),
                  PoBody(NoStatus, FALSE, <<>>)} :
       PostPurchaseOrder(body)
  \/ \E id \in PoIds, status \in {NoStatus, LowerConfirm},
        lines \in PoLineLists :
       PutPurchaseOrder(id, PoBody(status, TRUE, lines))
  \/ \E id \in {0} \cup PoIds, status \in {MixedConfirm, <<"x">>} :
       PutPurchaseOrder(id, PoBody(status, FALSE, <<>>))

SpecPO == InitPO /\ [][NextPO]_vars

\* a line the table accepts, stated on the request
PoLineAcceptable(line) ==
  /\ line.etaWeek \in 1..WeeksPerYear
  /\ line.materialId \in {m.id : m \in materials}

LinesOf(lines, id) == {l \in lines : l.PurchaseOrderId = id}

\* the lines of order id in the table are the lines of the body, one row each
HoldsLines(id, lines) ==
  /\ Cardinality(LinesOf(purchaseOrderLines, id)) = Len(lines)
  /\ \A i \in DOMAIN lines :
       Cardinality({l \in LinesOf(purchaseOrderLines, id) :
                      /\ l.MaterialId = lines[i].materialId
                      /\ l.Quantity = lines[i].quantity
                      /\ l.EtaYear = lines[i].etaYear
                      /\ l.EtaWeek = lines[i].etaWeek})
         = Cardinality({j \in DOMAIN lines : lines[j] = lines[i]})

IsPoReply == resp.kind \in {"postPurchaseOrder", "putPurchaseOrder"}

\* C13: a POST or PUT /api/purchase-orders that replies with a failure leaves
\* PurchaseOrders and PurchaseOrderLines as the request found them (no new
\* order, no new line, the earlier lines and status of the order kept); it
\* fails with 500 exactly when a statement of its transaction fails; one that
\* succeeds has written the order with every line of the body, and the rows
\* of other orders are as they were.
C13_PurchaseOrderAllOrNothing ==
  IsPoReply =>
    LET body == resp.body
        failing ==
          /\ body.hasLines
          /\ \/ \E i \in DOMAIN body.lines : ~PoLineAcceptable(body.lines[i])
             \/ /\ resp.kind = "putPurchaseOrder"
                /\ body.lines # <<>>
                /\ \A o \in resp.before.orders : o.PurchaseOrderId # resp.id
    IN /\ resp.status \in {400, 500} =>
            /\ purchaseOrders = resp.before.orders
            /\ purchaseOrderLines = resp.before.lines
       /\ resp.status \in {500, 200, 201} =>
            (resp.status = 500 <=> failing)
       /\ resp.status = 201 =>
            /\ \A o \in resp.before.orders : o.PurchaseOrderId # resp.id
            /\ purchaseOrders \ resp.before.orders =
                 {[PurchaseOrderId |-> resp.id,
                   Status |-> IF body.status = NoStatus THEN INITIAL
                              ELSE CONFIRM,
                   TotalAmount |-> 0]}
            /\ resp.before.orders \subseteq purchaseOrders
            /\ HoldsLines(resp.id, body.lines)
            /\ purchaseOrderLines \ LinesOf(purchaseOrderLines, resp.id)
                 = resp.before.lines
       /\ resp.status = 200 =>
            /\ {o.PurchaseOrderId : o \in purchaseOrders}
                 = {o.PurchaseOrderId : o \in resp.before.orders}
            /\ \A o \in purchaseOrders :
                 \/ o \in resp.before.orders
                 \/ o.PurchaseOrderId = resp.id /\ o.Status = CONFIRM
            /\ body.hasLines => HoldsLines(resp.id, body.lines)
            /\ ~body.hasLines => purchaseOrderLines = resp.before.lines
            /\ purchaseOrderLines \ LinesOf(purchaseOrderLines, resp.id)
                 = resp.before.lines \ LinesOf(resp.before.lines, resp.id)

\* an update of an INITIAL order that has two lines: its status change, the
\* removal of its lines and its first new line were done when the second
\* new line failed
C13_Witness ==
  /\ resp.kind = "putPurchaseOrder"
  /\ resp.status = 500
  /\ resp.body.status = LowerConfirm
  /\ Len(resp.body.lines) = 2
  /\ PoLineAcceptable(resp.body.lines[1])
  /\ \E o \in purchaseOrders :
       /\ o.PurchaseOrderId = resp.id
       /\ o.Status = INITIAL
       /\ Cardinality(LinesOf(purchaseOrderLines, resp.id)) = 2
       /\ \E l \in LinesOf(purchaseOrderLines, resp.id) :
            l.EtaWeek # resp.body.lines[1].etaWeek

(***************************************************************************)
(* The read operations: the range endpoints, GET /api/materials,           *)
(* GET /api/opening-balance/:type/:id and the projections fed by them,     *)
(* requested any number of times against stores that hold rows.            *)
(***************************************************************************)
\* GET /api/sales-plan
GetSalesPlan(productId, from, to) ==
  /\ resp' =
       IF Falsy(productId) \/ RangeMissing(from, to)
       THEN RangeRejected("getSalesPlan", productId, from, to)
       ELSE [kind |-> "getSalesPlan", status |-> 200, queried |-> TRUE,
             productId |-> productId, from |-> from, to |-> to,
             rows |-> SalesPlanRows(productId, from.year, from.week,
                                    to.year, to.week)]
  /\ UNCHANGED <<tables, lastUpsert, inFlight, db>>

\* GET /api/opening-balance/:type/:id; type is the path segment as sent
GetOpeningBalance(type, id) ==
  /\ resp' =
       IF Falsy(id)
       THEN [kind |-> "getOpeningBalance", status |-> 400, type |-> type,
             id |-> id, queried |-> FALSE]
       ELSE [kind |-> "getOpeningBalance", status |-> 200, type |-> type,
             id |-> id, queried |-> TRUE, row |-> OpeningBalanceOf(type, id)]
  /\ UNCHANGED <<tables, lastUpsert, inFlight, db>>

\* the parsed from and to parameters of a request: the input weeks, a week
\* whose year or week parameter is absent, and week 0
RangeParams ==
  InputWeeks \cup {WK(NULL, FirstWeek.week), WK(BaseYear, NULL), WK(BaseYear, 0)}

\* the type segments of a request: the two accepted ones and another
TypeSegments == {"product", "material", "widget"}

\* one product and one material with one BOM line; the opening balances are
\* absent or present, and the movement tables are empty or hold one row each
InitReads ==
  /\ products = {[id |-> 1, code |-> "589"]}
  /\ materials = {[id |-> 1, code |-> "NVL3"]}
  /\ nextItemId = [P |-> 2, M |-> 2]
  /\ openingBalances \in
       {{}, {MkOpeningBalance("P", 1, FirstWeek, MaxQty),
             MkOpeningBalance("M", 1, FirstWeek, MaxQty + 1)}}
  /\ bomLines = {[ProductId |-> 1, MaterialId |-> 1,
                  ConsumePerUnit |-> MaxRate]}
  /\ \E n \in {0, 1} :
       /\ salesPlans =
            {[ProductId |-> 1, PlanYear |-> FirstWeek.year,
              PlanWeek |-> FirstWeek.week, ShipQty |-> MaxQty] : i \in 1..n}
       /\ productionOrders =
            {[ProductionOrderId |-> i, ProductId |-> 1, Quantity |-> MaxQty,
              PlanYear |-> NextWeek(FirstWeek).year,
              PlanWeek |-> NextWeek(FirstWeek).week, Status |-> ACTIVE] :
               i \in 1..n}
       /\ purchaseOrders =
            {[PurchaseOrderId |-> i, Status |-> CONFIRM] : i \in 1..n}
       /\ purchaseOrderLines =
            {[PurchaseOrderLineId |-> i, PurchaseOrderId |-> i,
              MaterialId |-> 1, Quantity |-> MaxQty,
              EtaYear |-> FirstWeek.year, EtaWeek |-> FirstWeek.week] :
               i \in 1..n}
  /\ resp = NoResp
  /\ lastUpsert = {}
  /\ inFlight = <<>>
  /\ NoPool

NextReads ==
  \/ \E id \in {NULL, 1}, from \in RangeParams, to \in RangeParams :
       \/ GetProduction(id, from, to)
       \/ GetPurchase(id, from, to)
       \/ GetSalesPlan(id, from, to)
  \/ \E id \in {NULL, 1} :
       \/ GetMaterials(id)
       \/ \E type \in TypeSegments : GetOpeningBalance(type, id)
  \/ \E from \in InputWeeks :
     \E to \in {w \in InputWeeks : WeekLeq(from, w)} :
       \/ ProjectProduct(1, from, to)
       \/ ProjectMaterial(1, 1, from, to)

SpecReads == InitReads /\ [][NextReads]_vars

IsRangeReply == resp.kind \in {"getProduction", "getPurchase", "getSalesPlan"}

\* a parameter that the request omitted, and one that it carried as a
\* positive number
Omitted(v) == v = NULL
Carried(v) == v >= 1

RangeCarried ==
  /\ Carried(resp.from.year) /\ Carried(resp.from.week)
  /\ Carried(resp.to.year) /\ Carried(resp.to.week)

\* C15 (reversed range): a reply to a range request whose four parameters
\* are present with from > to has status 400 and no query was sent to the
\* store.
C15_ReversedRangeRejected ==
  (IsRangeReply /\ RangeCarried /\ WeekLess(resp.to, resp.from)) =>
    (resp.status = 400 /\ ~resp.queried)

\* the item parameter of the request behind a range reply
RangeItem ==
  IF resp.status = 400 THEN resp.id
  ELSE IF resp.kind = "getPurchase" THEN resp.materialId ELSE resp.productId

C17_InvalidTypeRejected ==
  (resp.kind = "getOpeningBalance" /\ resp.type \notin {"product", "material"}) =>
    (resp.status = 400 /\ ~resp.queried)

\* C19 (reads are pure): no step of a read operation or of a projection
\* changes a product, material, opening balance, BOM line, sales plan,
\* production order, purchase order or purchase order line.
C19_ReadsChangeNothing == [][tables' = tables]_vars

\* a listing that returned a stored production order
C19_Witness ==
  /\ resp.kind = "getProduction"
  /\ resp.status = 200
  /\ resp.rows # {}
  /\ openingBalances # {}

(***************************************************************************)
(* DELETE /api/items/:type/:id against a store in which products and       *)
(* materials share their numeric ids.                                      *)
(***************************************************************************)
DeleteIds == {1, 2}

\* the BOM lines a store may hold
DeleteBomLines ==
  {[ProductId |-> pm[1], MaterialId |-> pm[2], ConsumePerUnit |-> MaxRate] :
     pm \in {<<1, 1>>, <<1, 2>>, <<2, 1>>}}

\* the opening balances a store may hold
DeleteOpenings ==
  {MkOpeningBalance(t, id, FirstWeek, MaxQty) : t \in {"P", "M"}, id \in DeleteIds}

\* products 1, 2 and materials 1, 2; any of them has an opening balance, any
\* of the BOM lines exists
InitDelete ==
  /\ products = {[id |-> 1, code |-> "a"], [id |-> 2, code |-> "b"]}
  /\ materials = {[id |-> 1, code |-> "a"], [id |-> 2, code |-> "b"]}
  /\ nextItemId = [P |-> 3, M |-> 3]
  /\ openingBalances \in SUBSET DeleteOpenings
  /\ bomLines \in SUBSET DeleteBomLines
  /\ salesPlans = {}
  /\ productionOrders = {}
  /\ purchaseOrders = {}
  /\ purchaseOrderLines = {}
  /\ resp = NoResp
  /\ lastUpsert = {}
  /\ inFlight = <<>>
  /\ NoPool

NextDelete ==
  \E r \in ({"P", "m"} \X DeleteIds) \cup {<<"x", 1>>, <<"M", NULL>>} :
    \/ DeleteItem(r[1], r[2])
    \/ DeleteItem_ItemDeleteFails(r[1], r[2])

SpecDelete == InitDelete /\ [][NextDelete]_vars

\* the BOM line b references the item (itemType, itemId)
Refers(b, itemType, itemId) ==
  IF itemType = "P" THEN b.ProductId = itemId ELSE b.MaterialId = itemId

\* C18 (frame of deleteItem): after a DELETE /api/items that replied 200 the
\* store holds no opening balance of the deleted (itemType, itemId) and no
\* BOM line that references it, and the opening balances and BOM lines of
\* every other item, the item of the other type with the same id included,
\* are the ones the request found.
C18_DeleteItemFrame ==
  (resp.kind = "deleteItem" /\ resp.status = 200) =>
    LET t == resp.itemType
        id == resp.itemId
    IN /\ \A r \in openingBalances : ~OpeningKey(r, t, id)
       /\ \A b \in bomLines : ~Refers(b, t, id)
       /\ openingBalances =
            {r \in resp.before.openingBalances : ~OpeningKey(r, t, id)}
       /\ bomLines = {b \in resp.before.bomLines : ~Refers(b, t, id)}

\* product 1 was deleted while it and material 1 had an opening balance and
\* BOM lines of product 1 and of product 2 with material 1 existed
C18_Witness ==
  /\ resp.kind = "deleteItem"
  /\ resp.status = 200
  /\ resp.itemType = "P"
  /\ resp.itemId = 1
  /\ \E r \in resp.before.openingBalances : OpeningKey(r, "P", 1)
  /\ \E r \in openingBalances : OpeningKey(r, "M", 1)
  /\ \E b \in resp.before.bomLines : b.ProductId = 1 /\ b.MaterialId = 1
  /\ \E b \in bomLines : b.ProductId = 2 /\ b.MaterialId = 1

(***************************************************************************)
(* Repeated PUT /api/opening-balance                                       *)
(***************************************************************************)
\* C20 (idempotent upsert): a PUT /api/opening-balance that is applied to a
\* store already holding the row it writes, as the store does after the
\* same upsert was applied, replies 200 and leaves every opening balance as
\* it was: same keys, anchor weeks, quantities and number of rows.
C20_UpsertIdempotent ==
  [][(/\ resp'.kind = "putOpeningBalance"
      /\ resp'.status = 200
      /\ resp'.repeated) => openingBalances' = openingBalances]_vars

\* the same upsert was applied again while another key had a row as well
C20_Witness ==
  /\ resp.kind = "putOpeningBalance"
  /\ resp.status = 200
  /\ resp.repeated
  /\ Cardinality(openingBalances) = 2
  /\ \E r \in openingBalances : r.BalanceQty > 0

(***************************************************************************)
(* The week calendar: the order of the week keys and enumerateWeeks,       *)
(* applied to weeks at both ends of two consecutive years.                 *)
(***************************************************************************)
CalendarWeeks ==
  {WK(y, w) : y \in {BaseYear, BaseYear + 1},
              w \in {1, 2, WeeksPerYear - 1, WeeksPerYear}}

\* enumerateWeeks(from, to); probe is a third week, recorded for the
\* properties
EnumerateWeeks(from, to, probe) ==
  /\ resp = NoResp
  /\ resp' = [kind |-> "enumerateWeeks", from |-> from, to |-> to,
              probe |-> probe, weeks |-> enumerateWeeks(from, to)]
  /\ UNCHANGED <<tables, lastUpsert, inFlight, db>>

InitCalendar ==
  /\ products = {}
  /\ materials = {}
  /\ nextItemId = [P |-> 1, M |-> 1]
  /\ openingBalances = {}
  /\ bomLines = {}
  /\ salesPlans = {}
  /\ productionOrders = {}
  /\ purchaseOrders = {}
  /\ purchaseOrderLines = {}
  /\ resp = NoResp
  /\ lastUpsert = {}
  /\ inFlight = <<>>
  /\ NoPool

NextCalendar ==
  \E from \in CalendarWeeks, to \in CalendarWeeks, probe \in CalendarWeeks :
    EnumerateWeeks(from, to, probe)

SpecCalendar == InitCalendar /\ [][NextCalendar]_vars

\* C21 (week order and enumeration): on week keys, <= is reflexive, total,
\* antisymmetric and transitive and compares the year, then the week;
\* enumerateWeeks(from, to) is strictly ascending, starts at from, ends at
\* to, holds exactly the weeks of the inclusive range of the range
\* predicates when from <= to, and is the empty sequence when from > to.
C21_WeekOrderAndEnumeration ==
  resp.kind = "enumerateWeeks" =>
    LET a == resp.from
        b == resp.to
        c == resp.probe
        ws == resp.weeks
    IN /\ WeekLeq(a, a)
       /\ WeekLeq(a, b) \/ WeekLeq(b, a)
       /\ (WeekLeq(a, b) /\ WeekLeq(b, a)) => a = b
       /\ (WeekLeq(a, b) /\ WeekLeq(b, c)) => WeekLeq(a, c)
       /\ WeekLeq(a, b) <=>
            (a.year < b.year \/ (a.year = b.year /\ a.week <= b.week))
       /\ WeekLess(a, b) <=> (WeekLeq(a, b) /\ a # b)
       /\ WeekIndex(a) <= WeekIndex(b) =>
            /\ Len(ws) = WeekIndex(b) - WeekIndex(a) + 1
            /\ ws[1] = a
            /\ ws[Len(ws)] = b
            /\ \A i \in 1..(Len(ws) - 1) :
                 WeekIndex(ws[i + 1]) = WeekIndex(ws[i]) + 1
            /\ \A i \in 1..Len(ws) :
                 /\ ws[i].week >= 1 /\ ws[i].week <= WeeksPerYear
                 /\ InRange(ws[i].year, ws[i].week, a.year, a.week,
                            b.year, b.week)
            /\ (\E i \in 1..Len(ws) : ws[i] = c) <=>
                 InRange(c.year, c.week, a.year, a.week, b.year, b.week)
       /\ WeekIndex(a) > WeekIndex(b) => ws = <<>>

\* an enumeration from the last weeks of a year into the next year, with a
\* probe outside the range
C21_Witness ==
  /\ resp.kind = "enumerateWeeks"
  /\ resp.from.year < resp.to.year
  /\ resp.from.week > resp.to.week
  /\ Len(resp.weeks) > 2
  /\ WeekLess(resp.to, resp.probe)

(***************************************************************************)
(* db.js: the connection pool singleton                                    *)
(*                                                                         *)
(* getPool() runs to its return without interruption.  sql.connect settles *)
(* later; on rejection the catch callback runs as a job of its own before  *)
(* the promise that getPool() handed out is rejected, and each caller      *)
(* resumes in a job of its own after that promise has settled.  Other      *)
(* jobs, calls of getPool() among them, may run between these.             *)
(***************************************************************************)
tablesAndReplies == <<tables, resp, lastUpsert, inFlight>>

\* mutant: getPool() without the test of poolPromise
GetPool_AlwaysConnects(c) ==
  /\ callers[c].state # "waiting"
  /\ connects < MaxConnects
  /\ connects' = connects + 1
  /\ attempts' = Append(attempts, "connecting")
  /\ poolPromise' = connects + 1
  /\ callers' = [callers EXCEPT ![c] = [state |-> "waiting", on |-> connects + 1]]
  /\ UNCHANGED tablesAndReplies

\* caller c calls getPool(): if (!poolPromise) poolPromise = sql.connect(...)
\* .then(...).catch(...); return poolPromise
GetPool(c) ==
  /\ callers[c].state # "waiting"
  /\ IF poolPromise = 0
     THEN /\ connects < MaxConnects
          /\ connects' = connects + 1
          /\ attempts' = Append(attempts, "connecting")
          /\ poolPromise' = connects + 1
          /\ callers' = [callers EXCEPT
                           ![c] = [state |-> "waiting", on |-> connects + 1]]
     ELSE /\ callers' = [callers EXCEPT
                           ![c] = [state |-> "waiting", on |-> poolPromise]]
          /\ UNCHANGED <<poolPromise, connects, attempts>>
  /\ UNCHANGED tablesAndReplies

\* sql.connect of attempt n fulfils and .then returns the pool
ConnectFulfils(n) ==
  /\ attempts[n] = "connecting"
  /\ attempts' = [attempts EXCEPT ![n] = "fulfilled"]
  /\ UNCHANGED <<poolPromise, connects, callers, tablesAndReplies>>

\* sql.connect of attempt n rejects; the catch callback has not run yet
ConnectRejects(n) ==
  /\ attempts[n] = "connecting"
  /\ attempts' = [attempts EXCEPT ![n] = "failed"]
  /\ UNCHANGED <<poolPromise, connects, callers, tablesAndReplies>>

\* mutant: a catch callback that rethrows without clearing poolPromise
CatchCallback_KeepsPromise(n) ==
  /\ attempts[n] = "failed"
  /\ attempts' = [attempts EXCEPT ![n] = "rejected"]
  /\ UNCHANGED <<poolPromise, connects, callers, tablesAndReplies>>

\* .catch((err) => { poolPromise = undefined; throw err; }) of attempt n
CatchCallback(n) ==
  /\ attempts[n] = "failed"
  /\ poolPromise' = 0
  /\ attempts' = [attempts EXCEPT ![n] = "rejected"]
  /\ UNCHANGED <<connects, callers, tablesAndReplies>>

\* caller c resumes from await getPool() with the pool or with the error
Resume(c) ==
  /\ callers[c].state = "waiting"
  /\ attempts[callers[c].on] \in {"fulfilled", "rejected"}
  /\ callers' = [callers EXCEPT
                   ![c].state = IF attempts[callers[c].on] = "fulfilled"
                                THEN "pool" ELSE "error"]
  /\ UNCHANGED <<poolPromise, connects, attempts, tablesAndReplies>>

InitPool ==
  /\ products = {}
  /\ materials = {}
  /\ nextItemId = [P |-> 1, M |-> 1]
  /\ openingBalances = {}
  /\ bomLines = {}
  /\ salesPlans = {}
  /\ productionOrders = {}
  /\ purchaseOrders = {}
  /\ purchaseOrderLines = {}
  /\ resp = NoResp
  /\ lastUpsert = {}
  /\ inFlight = <<>>
  /\ NoPool

NextPool ==
  \/ \E c \in Callers : GetPool(c) \/ Resume(c)
  \/ \E n \in 1..connects :
       ConnectFulfils(n) \/ ConnectRejects(n) \/ CatchCallback(n)

SpecPool == InitPool /\ [][NextPool]_vars

\* C22 (singleton): while the first connection attempt has not settled,
\* sql.connect has been called exactly once and every caller that has
\* called getPool() holds the promise of that attempt; all callers that
\* received a pool received the pool of one attempt; and no sql.connect call
\* follows an attempt that succeeded.
C22_SingleConnect ==
  /\ (connects >= 1 /\ attempts[1] = "connecting") =>
       /\ connects = 1
       /\ \A c \in Callers : callers[c].state # "idle" => callers[c].on = 1
  /\ \A c, d \in Callers :
       (callers[c].state = "pool" /\ callers[d].state = "pool") =>
         callers[c].on = callers[d].on
  /\ \A n \in 1..connects : attempts[n] = "fulfilled" => connects = n

\* every caller has received the pool of the single connection attempt
C22_Witness ==
  /\ connects = 1
  /\ \A c \in Callers : callers[c] = [state |-> "pool", on |-> 1]

\* C23 (no cached failure): the promise of an attempt whose rejection has
\* been passed on is not the cached one; a caller that holds the promise of
\* another attempt than the cached one holds a rejected promise, and a
\* caller that received an error or a pool received it from a rejected or a
\* fulfilled attempt; so a caller has observed the rejection only after
\* poolPromise was cleared.
C23_FailureNotCached ==
  /\ \A n \in 1..connects : attempts[n] = "rejected" => poolPromise # n
  /\ \A c \in Callers :
       /\ (callers[c].state = "waiting" /\ callers[c].on # poolPromise) =>
            attempts[callers[c].on] = "rejected"
       /\ callers[c].state = "error" =>
            (attempts[callers[c].on] = "rejected" /\ poolPromise # callers[c].on)
       /\ callers[c].state = "pool" => attempts[callers[c].on] = "fulfilled"

\* two callers received the error of the first attempt, and a call made
\* after it started a second attempt, which succeeded
C23_Witness ==
  /\ connects = 2
  /\ attempts[1] = "rejected"
  /\ attempts[2] = "fulfilled"
  /\ \E c, d, e \in Callers :
       /\ c # d
       /\ callers[c] = [state |-> "error", on |-> 1]
       /\ callers[d] = [state |-> "error", on |-> 1]
       /\ callers[e] = [state |-> "pool", on |-> 2]

(***************************************************************************)
(* Orders written through the API: POST and PUT of production orders and   *)
(* of purchase orders against tables that start empty.                     *)
(***************************************************************************)
\* the table holds at most two orders
OrderIds == {1, 2}

ProductionBody(productId, quantity, w, status) ==
  [productId |-> productId, quantity |-> quantity, planYear |-> w.year,
   planWeek |-> w.week, status |-> status]

NoWeek == WK(UNDEFINED, UNDEFINED)

\* bodies of PUT /api/production-orders/:id: all fields, all but the status,
\* the status alone, the quantity alone, the week alone, a status outside
\* the set
PutProductionBodies ==
  {ProductionBody(1, 2, NextWeek(FirstWeek), MixedComplete),
   ProductionBody(1, 2, NextWeek(FirstWeek), NoStatus),
   ProductionBody(UNDEFINED, UNDEFINED, NoWeek, LowerActive),
   ProductionBody(UNDEFINED, 2, NoWeek, NoStatus),
   ProductionBody(UNDEFINED, UNDEFINED, NextWeek(FirstWeek), NoStatus),
   ProductionBody(UNDEFINED, UNDEFINED, NoWeek, <<"x">>)}

LowerReceived == <<"r", "e", "c", "e", "i", "v", "e", "d">>

InitOrders ==
  /\ products = {[id |-> 1, code |-> "a"]}
  /\ materials = {[id |-> 1, code |-> "a"]}
  /\ nextItemId = [P |-> 2, M |-> 2]
  /\ openingBalances = {}
  /\ bomLines = {}
  /\ salesPlans = {}
  /\ productionOrders = {}
  /\ purchaseOrders = {}
  /\ purchaseOrderLines = {}
  /\ resp = NoResp
  /\ lastUpsert = {}
  /\ inFlight = <<>>
  /\ NoPool

NextOrders ==
  \/ \E status \in {NoStatus, LowerActive, <<"x">>} :
       /\ Cardinality(productionOrders) < Cardinality(OrderIds)
       /\ PostProductionOrder(ProductionBody(1, 1, FirstWeek, status))
  \/ \E id \in OrderIds, body \in PutProductionBodies :
       PutProductionOrder(id, body)
  \/ \E status \in {NoStatus, LowerConfirm, <<"x">>} :
       /\ Cardinality(purchaseOrders) < Cardinality(OrderIds)
       /\ PostPurchaseOrder(PoBody(status, TRUE, <<PoLine(1, 1, FirstWeek)>>))
  \/ \E id \in OrderIds, status \in {NoStatus, LowerReceived, <<"x">>} :
       PutPurchaseOrder(id, PoBody(status, FALSE, <<>>))

SpecOrders == InitOrders /\ [][NextOrders]_vars

\* the order id in the set of orders
OrderIn(orders, id) == CHOOSE o \in orders : o.ProductionOrderId = id

\* the field is supplied in a body
Supplied(v) == v # UNDEFINED

\* C25 (partial update): a PUT /api/production-orders/:id for a stored order
\* whose body supplies some of productId, quantity, planYear, planWeek and
\* status, each with a value the table accepts, replies 200; afterwards the
\* order holds the supplied values, its other fields are as before and so
\* is every other order.
C25_PartialUpdate ==
  (/\ resp.kind = "putProductionOrder"
   /\ \E o \in resp.before : o.ProductionOrderId = resp.id
   /\ resp.body.status = NoStatus
         \/ Upper(resp.body.status) \in {INITIAL, ACTIVE, COMPLETE}) =>
    LET b == resp.body
        o == OrderIn(resp.before, resp.id)
    IN /\ resp.status = 200
       /\ \E n \in productionOrders :
            /\ n.ProductionOrderId = resp.id
            /\ n.ProductId = IF Supplied(b.productId) THEN b.productId
                              ELSE o.ProductId
            /\ n.Quantity = IF Supplied(b.quantity) THEN b.quantity
                             ELSE o.Quantity
            /\ n.PlanYear = IF Supplied(b.planYear) THEN b.planYear
                             ELSE o.PlanYear
            /\ n.PlanWeek = IF Supplied(b.planWeek) THEN b.planWeek
                             ELSE o.PlanWeek
            /\ n.Status = IF b.status # NoStatus THEN Upper(b.status)
                           ELSE o.Status
       /\ {x \in productionOrders : x.ProductionOrderId # resp.id} =
            {x \in resp.before : x.ProductionOrderId # resp.id}

IsProductionWrite ==
  resp.kind \in {"postProductionOrder", "putProductionOrder"}

\* the status of the body is outside the closed set of the reply's resource
StatusOutside ==
  /\ resp.body.status # NoStatus
  /\ Upper(resp.body.status) \notin
       (IF IsProductionWrite THEN {INITIAL, ACTIVE, COMPLETE}
        ELSE {INITIAL, CONFIRM, RECEIVED, CANCELLED})

\* C29 (closed status sets): with tables that start empty, every stored
\* production order has status INITIAL, ACTIVE or COMPLETE and every stored
\* purchase order INITIAL, CONFIRM, RECEIVED or CANCELLED, in upper case; a
\* create or update whose status is outside the set replies 400 and leaves
\* the tables as it found them; a create without a status stores INITIAL,
\* which neither range endpoint counts.
C29_ClosedStatusSets ==
  /\ \A o \in productionOrders : o.Status \in {INITIAL, ACTIVE, COMPLETE}
  /\ \A o \in purchaseOrders :
       o.Status \in {INITIAL, CONFIRM, RECEIVED, CANCELLED}
  /\ (IsProductionWrite /\ StatusOutside) =>
       (resp.status = 400 /\ productionOrders = resp.before)
  /\ (IsPoReply /\ StatusOutside) =>
       /\ resp.status = 400
       /\ purchaseOrders = resp.before.orders
       /\ purchaseOrderLines = resp.before.lines
  /\ (resp.kind = "postProductionOrder" /\ resp.status = 201
        /\ resp.body.status = NoStatus) =>
       \E o \in productionOrders :
         /\ o.ProductionOrderId = resp.id
         /\ o.Status = INITIAL
         /\ ~ProductionStatusCounts(o.Status)
  /\ (resp.kind = "postPurchaseOrder" /\ resp.status = 201
        /\ resp.body.status = NoStatus) =>
       \E o \in purchaseOrders :
         /\ o.PurchaseOrderId = resp.id
         /\ o.Status = INITIAL
         /\ ~PurchaseStatusCounts(o.Status)

\* an order created from a lower-case status is stored next to one created
\* without a status, a purchase order was created, and an update with a
\* status outside the set was refused
C29_Witness ==
  /\ resp.kind = "putPurchaseOrder"
  /\ resp.status = 400
  /\ resp.body.status = <<"x">>
  /\ \E o \in purchaseOrders : o.PurchaseOrderId = resp.id
  /\ \E o, n \in productionOrders : o.Status = ACTIVE /\ n.Status = INITIAL

(***************************************************************************)
(* DELETE /api/items when the item's own delete fails                      *)
(***************************************************************************)
\* C26 (delete is all-or-nothing): a DELETE /api/items/:type/:id that failed
\* to delete the product or material row replied with a failure and the
\* item, which survives, still has the opening balance the request found.
C26_DeleteAllOrNothing ==
  (resp.kind = "deleteItem" /\ resp.status = 500) =>
    /\ \E i \in ItemsOf(resp.itemType) : i.id = resp.itemId
    /\ \A r \in resp.before.openingBalances :
         OpeningKey(r, resp.itemType, resp.itemId) => r \in openingBalances

(***************************************************************************)
(* The lines of a stored purchase order                                    *)
(***************************************************************************)
\* C27 (an order has a line): after any sequence of POST and PUT
\* /api/purchase-orders requests on empty tables every stored purchase order
\* has at least one line, and a POST whose lines are missing or empty
\* replied 400.
C27_EveryOrderHasLine ==
  /\ \A o \in purchaseOrders :
       LinesOf(purchaseOrderLines, o.PurchaseOrderId) # {}
  /\ (resp.kind = "postPurchaseOrder"
        /\ (~resp.body.hasLines \/ resp.body.lines = <<>>)) =>
       resp.status = 400

(***************************************************************************)
(* The amounts of a purchase order: bodies whose lines carry a totalAmount *)
(***************************************************************************)
\* line lists with amounts of 0.006, 0.020 and 1.000
AmountLineLists ==
  LET sub == PoLineAmount(1, 1, FirstWeek, 6)
      cents == PoLineAmount(1, 2, NextWeek(FirstWeek), 20)
      whole == PoLineAmount(1, 1, NextWeek(FirstWeek), 1000)
  IN {<<sub>>, <<sub, sub>>, <<cents, whole>>, <<whole>>, <<cents>>}

InitAmount == InitPO

NextAmount ==
  \/ \E lines \in AmountLineLists :
       /\ \E i \in PoIds : \A o \in purchaseOrders : o.PurchaseOrderId # i
       /\ PostPurchaseOrder(PoBody(NoStatus, TRUE, lines))
  \/ \E id \in PoIds, lines \in AmountLineLists \cup {<<>>} :
       PutPurchaseOrder(id, PoBody(NoStatus, TRUE, lines))
  \/ \E id \in PoIds :
       PutPurchaseOrder(id, PoBody(LowerConfirm, FALSE, <<>>))

SpecAmount == InitAmount /\ [][NextAmount]_vars

\* C28 (lines and total of an order): after a POST /api/purchase-orders
\* that replied 201, or a PUT that replied 200 to a body with a lines array,
\* the order's stored lines are the lines of the body, one row each, and
\* its TotalAmount is the sum of the TotalAmount of its stored lines; after
\* a PUT that replied 200 to a body without a lines array the order's lines
\* and TotalAmount are the ones the request found.
C28_LinesAndTotal ==
  (IsPoReply /\ resp.status \in {200, 201}) =>
    IF resp.body.hasLines
    THEN /\ HoldsLines(resp.id, resp.body.lines)
         /\ \A o \in purchaseOrders :
              o.PurchaseOrderId = resp.id =>
                o.TotalAmount = SumOfLines(purchaseOrderLines, resp.id)
    ELSE /\ purchaseOrderLines = resp.before.lines
         /\ \A o \in purchaseOrders, b \in resp.before.orders :
              o.PurchaseOrderId = b.PurchaseOrderId =>
                o.TotalAmount = b.TotalAmount

(***************************************************************************)
(* The row limits of POST /api/items/import                                *)
(***************************************************************************)
\* C30 (import row limits): a POST /api/items/import whose sheet has no rows,
\* or more than MAX_IMPORT_ROWS rows, replied 400; the reply is sent before
\* the first statement, so nothing was written.
C30_ImportRowLimits ==
  (resp.kind = "importItems"
     /\ (resp.rows = 0 \/ resp.rows > MAX_IMPORT_ROWS)) =>
    resp.status = 400

====
